---- MODULE Spec2Model ----
(***************************************************************************)
(* The agent action-response loop of src/computer-use/cua.py: class Agent  *)
(* (held response, tool registry, start_task, continue_task and the        *)
(* derived properties).                                                    *)
(*                                                                         *)
(* continue_task is a coroutine.  It is modelled between its suspension    *)
(* points: one step for lines 163-169, one step per drained output item    *)
(* (the Driver action, the screenshot and the tool handler are awaited     *)
(* inside it), one step for "asyncio.sleep(wait) + responses.create(...)"  *)
(* and one step for the outcome of the awaited model request.  The code    *)
(* between the last drained item and the first sleep (lines 211-215) has   *)
(* no suspension point and belongs to the step that drains the last item.  *)
(*                                                                         *)
(* Python values: None is NoneResponse / NoId; an attribute that was never *)
(* assigned is UnsetResponse (reading it raises AttributeError).           *)
(*                                                                         *)
(* The variables effects .. delivered record what one continue_task did    *)
(* (Driver and handler invocations, sleeps, requests, channel answers);    *)
(* the sequences are emptied when the call ends, the counters when the     *)
(* next call begins.                                                       *)
(*                                                                         *)
(* Two specifications share the operations and differ in the model         *)
(* channel: Spec (drain scenarios: every request is answered with a        *)
(* completed response of up to MaxItems items) and SpecRetry (retry        *)
(* scenarios: rate-limit errors, other errors and responses that are not   *)
(* completed, with responses of up to MaxRetryItems items).                *)
(***************************************************************************)
EXTENDS Integers, Sequences, FiniteSets, TLC

\* ---------------------------------------------------------------- bounds

\* Longest output sequence of a model response in the drain scenarios.
MaxItems == 3

\* Longest output sequence of a model response in the retry scenarios.
MaxRetryItems == 1

\* Width of the logical canvas whose points are all tried in the Scaler
\* scenarios (its height is two less).
MaxCoord == 6

\* Longest drag path in the Scaler scenarios.
MaxPathLen == 2

\* Longest output sequence of a model response in the overlap scenarios.
MaxOverlapItems == 1

\* Longest output sequence of a model response in the Driver scenarios.
MaxDriverItems == 2

\* Longest output sequence of a model response in the scenarios that
\* combine several calls with retried requests.
MaxBatchItems == 2

\* Items of a response in the registry scenarios.
MaxToolItems == 2

\* Failures a CircuitBreaker is given for one operation without a success
\* in between.
MaxFailures == 4

\* Calls of DirectNavigator.navigate_directly that target one domain.
MaxNavCalls == 5

\* Calls of CrewOrchestration.execute_task.
MaxTasks == 3

\* ------------------------------------------------------ program constants

\* cua.py:216  for _ in range(10)
MaxAttempts == 10
\* cua.py:233  ... if match else 10
DefaultWait == 10

\* CircuitBreaker(fail_threshold=3, reset_timeout=60) of EnhancedAgent.
fail_threshold == 3

\* @azure_retry(max_retries=3, ...) on EnhancedAgent.continue_task.
max_retries == 3

\* direct_navigator.py:23  self.max_navigation_attempts = 3
max_navigation_attempts == 3

\* direct_navigator.py:121  max_retries = 2 (the page.goto retry loop)
goto_max_retries == 2

\* crew_orchestration.py:622  MAX_TURNS = 20
MAX_TURNS == 20

\* ------------------------------------------------------------ data model

NoId == 0
NoHint == -1

\* A rate-limit error message either carries "Please try again in <n>s"
\* (the hint n) or does not (NoHint).
Hints == {0, 3, NoHint}

\* Response ids are opaque tokens; a new response never reuses the id of the
\* response it continues.
ResponseIds == {1, 2}

Statuses == {"completed", "incomplete"}

UserMessages == {"", "go"}

\* A tool schema (the dict given to add_tool): its name and the rest of it.
Schema(name, description) == [name |-> name, description |-> description]

Schemas == {Schema("lookup", "v1")}
Handlers == {"h1"}

\* Methods of the computer object (Scaler, cua.py:40-89).
DriverMethods ==
    {"screenshot", "click", "double_click", "scroll", "type", "wait", "move",
     "keypress", "drag"}

NoAction == [type |-> "none", arg |-> 0]

\* Output items of a response, one record shape for all item types.
ComputerCall(action, checks) ==
    [type |-> "computer_call", call_id |-> 0, action |-> action,
     pending_safety_checks |-> checks, name |-> "", role |-> ""]

FunctionCall(name) ==
    [type |-> "function_call", call_id |-> 0, action |-> NoAction,
     pending_safety_checks |-> <<>>, name |-> name, role |-> ""]

PlainItem(type, role) ==
    [type |-> type, call_id |-> 0, action |-> NoAction,
     pending_safety_checks |-> <<>>, name |-> "", role |-> role]

\* The items the model channel returns: computer
\* calls with two different actions and different safety checks, a call of
\* the tool "lookup" (registered or not, see add_tool), reasoning, an
\* assistant message and an item of another type.
ItemKinds ==
    { ComputerCall([type |-> "click", arg |-> 7], <<"chkA">>),
      ComputerCall([type |-> "type", arg |-> 8], <<"chkB">>),
      FunctionCall("lookup"),
      PlainItem("reasoning", ""),
      PlainItem("message", "assistant"),
      PlainItem("web_search_call", "") }

\* Call ids are unique within a response: the item's position.
WithCallIds(items) ==
    [i \in 1..Len(items) |-> [items[i] EXCEPT !.call_id = i]]

\* The output sequences of at most n items of the given kinds.
OutputsOf(kinds, n) ==
    UNION { {WithCallIds(s) : s \in [1..m -> kinds]} : m \in 0..n }

UnsetResponse ==
    [kind |-> "unset", id |-> NoId, status |-> "", output |-> <<>>]

NoneResponse ==
    [kind |-> "none", id |-> NoId, status |-> "", output |-> <<>>]

Response(id, status, output) ==
    [kind |-> "response", id |-> id, status |-> status, output |-> output]

\* ----------------------------------------------------------------- state

VARIABLES
    response,               \* Agent.response (self.response)
    tools,                  \* Agent.tools, in insertion order
    taskStarted,            \* start_task has been called on this Agent
    pc,                     \* position of the continue_task coroutine
    result,                 \* how the last continue_task ended
    user_message,           \* continue_task: parameter
    previous_response,      \* continue_task: local
    previous_response_id,   \* continue_task: local
    inputs,                 \* continue_task: local
    idx,                    \* continue_task: position of the drain loop
    wait,                   \* continue_task: local
    attempt,                \* continue_task: iterations of range(10) begun
    effects,                \* Driver and handler invocations of this call
    requests,               \* model requests sent by this call
    nRequests,              \* model requests sent by the last/current call
    nSleeps,                \* asyncio.sleep calls of the last/current call
    slept,                  \* duration of the latest asyncio.sleep
    nSignals,               \* rate-limit errors of the last/current call
    signal,                 \* hint of the latest rate-limit error
    lastOutcome,            \* outcome of the latest model request
    delivered,              \* response object the channel returned last
    other,                  \* frame of a second continue_task coroutine
    scaler,                 \* Scaler: size, screen_width, screen_height
    dispatched,             \* the latest call the Scaler passed to the Driver
    circuit_breaker,        \* CircuitBreaker: fail_count, circuit_state, time
    enhanced,               \* EnhancedAgent.continue_task under azure_retry
    navigator,              \* DirectNavigator: attempts, metrics, last call
    crew                    \* CrewOrchestration: metrics, execute_task

vars ==
    <<response, tools, taskStarted, pc, result, user_message,
      previous_response, previous_response_id, inputs, idx, wait, attempt,
      effects, requests, nRequests, nSleeps, slept, nSignals, signal,
      lastOutcome, delivered, other, scaler, dispatched, circuit_breaker,
      enhanced, navigator, crew>>

device == <<scaler, dispatched>>

\* The objects of the orchestration layer: direct_navigator.py and
\* crew_orchestration.py.
orchestration == <<navigator, crew>>

\* The objects around the Agent: main_playwright.py and the orchestration
\* layer.
services == <<circuit_breaker, enhanced, orchestration>>

\* Scaler.__init__(computer, dimensions): the real screen size is unknown
\* (-1) until the first screenshot.
NewScaler(dimensions) ==
    [size |-> dimensions, screen_width |-> -1, screen_height |-> -1]

\* The logical canvas the callers give the Scaler (width, height), with the
\* proportions of the (1024, 768) of main.py.
DefaultSize == <<4, 3>>

\* No call has reached the Driver.
NoCall == [op |-> "none", path |-> <<>>]

\* The operations a CircuitBreaker is asked about: "screenshot" is the one
\* EnhancedAgent uses; the class takes any key.
Operations == {"screenshot", "api"}

\* CircuitBreaker.__init__: the three dicts are empty.  fail_count holds
\* what fail_count.get(operation, 0) gives; circuit_state holds "unset" for
\* a missing key; expired[operation] tells whether
\* time.time() - last_failure_time.get(operation, 0) > reset_timeout.
NewCircuitBreaker ==
    [fail_count |-> [op \in Operations |-> 0],
     circuit_state |-> [op \in Operations |-> "unset"],
     expired |-> [op \in Operations |-> TRUE]]

\* No EnhancedAgent.continue_task is running.
NoEnhancedCall ==
    [pc |-> "idle", retries |-> 0, invocations |-> 0, user_input |-> "",
     degraded |-> FALSE, original_perf_mode |-> FALSE,
     performance_mode |-> FALSE, outcome |-> "none"]

\* extract_domain_from_task finds no domain.
NoDomain == "None"

\* The domains of the DirectNavigator scenarios: the keys of
\* navigation_attempts.
Domains == {"example.com", "github.com"}

\* DirectNavigator.__init__: no attempts, metrics at zero; no call yet.
\* calls counts the navigate_directly calls that targeted each domain;
\* domain, gotos and returned describe the latest call.
NewDirectNavigator ==
    [navigation_attempts |-> [d \in Domains |-> 0],
     successful_navigations |-> 0,
     failed_navigations |-> 0,
     redirects_encountered |-> 0,
     calls |-> [d \in Domains |-> 0],
     domain |-> NoDomain,
     gotos |-> 0,
     returned |-> FALSE]

\* A reply of the agent executor, by whether it holds "Final Answer:" and
\* whether it holds an observations section.
Reply(final_answer, observations) ==
    [final_answer |-> final_answer, observations |-> observations]

Replies == { Reply(f, o) : f \in BOOLEAN, o \in BOOLEAN }

\* result = None
NoResult == [kind |-> "none", turn |-> 0, reply |-> Reply(FALSE, FALSE)]

\* CrewOrchestration.__init__: the metrics at zero; no execute_task yet.
\* runs counts the runs of the agent executor in the latest call, outcome
\* tells how the latest call ended.
NewCrewOrchestration ==
    [tasks_started |-> 0, tasks_completed |-> 0, errors |-> 0,
     pc |-> "idle", latest_input |-> "none", all_turns |-> <<>>,
     runs |-> 0, result |-> NoResult, outcome |-> "none"]

\* The frame of a coroutine that is not inside continue_task.
IdleFrame ==
    [pc |-> "idle", result |-> "none", user_message |-> "",
     previous_response |-> NoneResponse, previous_response_id |-> NoId,
     inputs |-> <<>>, idx |-> 0, wait |-> 0, attempt |-> 0,
     effects |-> <<>>, requests |-> <<>>]

\* The frame of the coroutine whose position and locals the variables hold.
RunningFrame ==
    [pc |-> pc, result |-> result, user_message |-> user_message,
     previous_response |-> previous_response,
     previous_response_id |-> previous_response_id,
     inputs |-> inputs, idx |-> idx, wait |-> wait, attempt |-> attempt,
     effects |-> effects, requests |-> requests]

locals ==
    <<user_message, previous_response, previous_response_id, inputs, idx,
      wait, attempt>>

observed ==
    <<effects, requests, nRequests, nSleeps, slept, nSignals, signal,
      lastOutcome, delivered>>


\* ---------------------------------------------------- derived properties

RECURSIVE ComputerCalls(_)
\* [item for item in output if item.type == "computer_call"]
ComputerCalls(output) ==
    IF output = <<>> THEN <<>>
    ELSE IF Head(output).type = "computer_call"
         THEN <<Head(output)>> \o ComputerCalls(Tail(output))
         ELSE ComputerCalls(Tail(output))

\* Agent.actions: the (action, action_args) of every computer_call item of
\* the held response, in item order.
actions(resp) ==
    [i \in 1..Len(ComputerCalls(resp.output)) |->
        ComputerCalls(resp.output)[i].action]

RECURSIVE FlattenChecks(_)
FlattenChecks(items) ==
    IF items = <<>> THEN <<>>
    ELSE Head(items).pending_safety_checks \o FlattenChecks(Tail(items))

\* Agent.pending_safety_checks: the checks of all computer_call items.
pending_safety_checks(resp) == FlattenChecks(ComputerCalls(resp.output))

\* Agent.requires_user_input: "True", "False", or the exception raised.
requires_user_input(resp) ==
    IF resp.kind = "unset" THEN "AttributeError"
    ELSE IF resp.kind = "none" \/ Len(resp.output) = 0 THEN "True"
    ELSE IF /\ resp.output[Len(resp.output)].type = "message"
            /\ resp.output[Len(resp.output)].role = "assistant"
         THEN "True"
         ELSE "False"

\* The properties of Agent that iterate self.response.output with no test
\* for None.
DerivedProperties ==
    {"requires_consent", "pending_safety_checks", "reasoning_summary",
     "actions"}

\* Reading one of them: a value, or the exception Python raises for
\* None.output and for the attribute that was never assigned.
ReadProperty(property, resp) ==
    IF resp.kind \in {"unset", "none"} THEN "AttributeError" ELSE "value"

\* Agent.requires_consent: "True", "False", or the exception raised
\* (self.response.output is read without a test for None).
requires_consent(resp) ==
    IF resp.kind \in {"unset", "none"} THEN "AttributeError"
    ELSE IF \E i \in 1..Len(resp.output) : resp.output[i].type = "computer_call"
         THEN "True"
         ELSE "False"

\* ----------------------------------------------------- request payload

\* Entries of the request input, one record shape for all entry types.
ComputerCallOutput(call_id, screenshot, checks) ==
    [type |-> "computer_call_output", call_id |-> call_id,
     image_url |-> screenshot, acknowledged_safety_checks |-> checks,
     output |-> "", role |-> "", content |-> ""]

FunctionCallOutput(call_id, value) ==
    [type |-> "function_call_output", call_id |-> call_id,
     image_url |-> 0, acknowledged_safety_checks |-> <<>>,
     output |-> value, role |-> "", content |-> ""]

Message(content) ==
    [type |-> "message", call_id |-> 0,
     image_url |-> 0, acknowledged_safety_checks |-> <<>>,
     output |-> "", role |-> "user", content |-> content]

\* inputs.append(output), with the entry put first instead of last.
PrependOutput(inp, out) == <<out>> \o inp

\* inputs.append(output)
AppendOutput(inp, out) == Append(inp, out)

\* Agent.computer_tool: the schema of the computer-control tool.
computer_tool == Schema("computer_use_preview", "")

\* Agent.get_tools with the computer tool put last.
get_tools_computer_last ==
    [i \in 1..Len(tools) |-> tools[i].tool] \o <<computer_tool>>

\* Agent.get_tools: the computer tool, then the registered schemas.
get_tools ==
    <<computer_tool>> \o [i \in 1..Len(tools) |-> tools[i].tool]

\* The request with the continuation id left out.
CreateRequestUnchained(inp, prev_id) ==
    [input |-> inp, previous_response_id |-> NoId, tools |-> get_tools]

\* client.responses.create(model, input, previous_response_id, tools, ...)
CreateRequest(inp, prev_id) ==
    [input |-> inp, previous_response_id |-> prev_id, tools |-> get_tools]

\* wait = int(match.group(1)) if match else 10, with the hint ignored.
ParseWaitDefaultOnly(hint) == DefaultWait

\* wait = int(match.group(1)) if match else 10
ParseWait(hint) == IF hint = NoHint THEN DefaultWait ELSE hint

\* range(10) with one iteration too many.
LoopContinuesOffByOne(n) == n <= MaxAttempts

\* for _ in range(10): another iteration begins after n iterations.
LoopContinues(n) == n < MaxAttempts

\* tool_name in self.tools
ToolRegistered(name) == \E i \in 1..Len(tools) : tools[i].name = name

ToolHandler(name) ==
    (CHOOSE i \in 1..Len(tools) : tools[i].name = name)

\* ------------------------------------------------------------ operations

Init ==
    /\ response = UnsetResponse      \* __init__ assigns self.repsonse
    /\ tools = <<>>
    /\ taskStarted = FALSE
    /\ pc = "idle"
    /\ result = "none"
    /\ user_message = ""
    /\ previous_response = NoneResponse
    /\ previous_response_id = NoId
    /\ inputs = <<>>
    /\ idx = 0
    /\ wait = 0
    /\ attempt = 0
    /\ effects = <<>>
    /\ requests = <<>>
    /\ nRequests = 0
    /\ nSleeps = 0
    /\ slept = 0
    /\ nSignals = 0
    /\ signal = NoHint
    /\ lastOutcome = "none"
    /\ delivered = NoneResponse
    /\ other = IdleFrame
    /\ scaler = NewScaler(DefaultSize)
    /\ dispatched = NoCall
    /\ circuit_breaker = NewCircuitBreaker
    /\ enhanced = NoEnhancedCall
    /\ navigator = NewDirectNavigator
    /\ crew = NewCrewOrchestration

\* Agent.add_tool with the schema of a name kept from its first
\* registration: only the handler is replaced.
add_tool_keeps_schema(tool, func) ==
    /\ pc = "idle"
    /\ LET name == tool.name
           entry == [name |-> name, tool |-> tool, func |-> func]
       IN tools' = IF ToolRegistered(name)
                   THEN [i \in 1..Len(tools) |->
                           IF tools[i].name = name
                           THEN [tools[i] EXCEPT !.func = func]
                           ELSE tools[i]]
                   ELSE Append(tools, entry)
    /\ UNCHANGED <<other, services, device, response, taskStarted, pc, result, locals, observed>>

\* Agent.add_tool: self.tools[name] = (tool, func).  A dict keeps the
\* position of a key that is assigned again.
add_tool(tool, func) ==
    /\ pc = "idle"
    /\ LET name == tool.name
           entry == [name |-> name, tool |-> tool, func |-> func]
       IN tools' = IF ToolRegistered(name)
                   THEN [i \in 1..Len(tools) |->
                           IF tools[i].name = name THEN entry ELSE tools[i]]
                   ELSE Append(tools, entry)
    /\ UNCHANGED <<other, services, device, response, taskStarted, pc, result, locals, observed>>

\* Agent.start_task with the held response left in place.
start_task_keeps_response ==
    /\ pc = "idle"
    /\ taskStarted' = TRUE
    /\ UNCHANGED <<other, services, device, response, tools, pc, result, locals, observed>>

\* Agent.start_task
start_task ==
    /\ pc = "idle"
    /\ response' = NoneResponse
    /\ taskStarted' = TRUE
    /\ UNCHANGED <<other, services, device, tools, pc, result, locals, observed>>

\* continue_task ends (return or raise): its locals go out of scope and the
\* record of its effects and requests is emptied.
Finish(kind) ==
    /\ pc' = "idle"
    /\ result' = kind
    /\ user_message' = ""
    /\ previous_response' = NoneResponse
    /\ previous_response_id' = NoId
    /\ inputs' = <<>>
    /\ idx' = 0
    /\ wait' = 0
    /\ attempt' = 0
    /\ effects' = <<>>
    /\ requests' = <<>>
    /\ slept' = 0
    /\ signal' = NoHint

\* Lines 211-215, without line 214: the held response stays held.
BeginSubmissionKeepsResponse(inp, msg) ==
    /\ inputs' = IF msg # "" THEN Append(inp, Message(msg)) ELSE inp
    /\ response' = response
    /\ wait' = 0
    /\ attempt' = 0
    /\ pc' = "attempt"

\* Lines 211-215, with the user message put before the call outputs.
BeginSubmissionMessageFirst(inp, msg) ==
    /\ inputs' = IF msg # "" THEN <<Message(msg)>> \o inp ELSE inp
    /\ response' = NoneResponse
    /\ wait' = 0
    /\ attempt' = 0
    /\ pc' = "attempt"

\* Lines 211-215: the user message is appended, the held response is
\* cleared and the retry loop is entered.
BeginSubmission(inp, msg) ==
    /\ inputs' = IF msg # "" THEN Append(inp, Message(msg)) ELSE inp
    /\ response' = NoneResponse
    /\ wait' = 0
    /\ attempt' = 0
    /\ pc' = "attempt"

\* Lines 162-169 (and 211-215 when there is nothing to drain): the Agent's
\* part of the call.
EnterContinueTask(msg) ==
    /\ pc = "idle"
    /\ nRequests' = 0
    /\ nSleeps' = 0
    /\ nSignals' = 0
    /\ lastOutcome' = "none"
    /\ delivered' = NoneResponse
    /\ UNCHANGED <<other, device, tools, taskStarted>>
    /\ IF response.kind = "unset"
       THEN \* line 166: self.response was never assigned
            /\ Finish("AttributeError")
            /\ UNCHANGED response
       ELSE /\ result' = "running"
            /\ user_message' = msg
            /\ previous_response' = response
            /\ previous_response_id' =
                  IF response.kind = "response" THEN response.id ELSE NoId
            /\ effects' = <<>>
            /\ requests' = <<>>
            /\ slept' = 0
            /\ signal' = NoHint
            /\ IF response.kind = "response" /\ Len(response.output) > 0
               THEN /\ idx' = 1
                    /\ inputs' = <<>>
                    /\ pc' = "drain"
                    /\ UNCHANGED <<response, wait, attempt>>
               ELSE /\ idx' = 0
                    /\ BeginSubmission(<<>>, msg)

\* Agent.continue_task called directly.
continue_task(msg) ==
    /\ EnterContinueTask(msg)
    /\ UNCHANGED services

\* The drain loop left after the first item it handled (a break).
AdvanceBreaks(inp, eff) ==
    /\ effects' = eff
    /\ idx' = idx
    /\ BeginSubmission(inp, user_message)
    /\ UNCHANGED <<other, services, device, tools, taskStarted, result, user_message,
                   previous_response, previous_response_id, requests,
                   nRequests, nSleeps, slept, nSignals, signal, lastOutcome,
                   delivered>>

\* The drain loop moves to the next item, or leaves the loop.
Advance(inp, eff) ==
    /\ effects' = eff
    /\ IF idx < Len(previous_response.output)
       THEN /\ idx' = idx + 1
            /\ inputs' = inp
            /\ pc' = "drain"
            /\ UNCHANGED <<response, wait, attempt>>
       ELSE /\ idx' = idx
            /\ BeginSubmission(inp, user_message)
    /\ UNCHANGED <<other, services, device, tools, taskStarted, result, user_message,
                   previous_response, previous_response_id, requests,
                   nRequests, nSleeps, slept, nSignals, signal, lastOutcome,
                   delivered>>

\* An exception leaves continue_task and the held response is dropped.
DrainRaiseDropsResponse(kind) ==
    /\ Finish(kind)
    /\ response' = NoneResponse
    /\ UNCHANGED <<other, services, device, tools, taskStarted, nRequests, nSleeps,
                   nSignals, lastOutcome, delivered>>

\* An exception leaves the drain loop and continue_task.
DrainRaise(kind) ==
    /\ Finish(kind)
    /\ UNCHANGED <<other, services, device, response, tools, taskStarted, nRequests, nSleeps,
                   nSignals, lastOutcome, delivered>>

Draining(type) ==
    /\ pc = "drain"
    /\ previous_response.output[idx].type = type

\* How a Driver action can end: performed; failed inside the Driver, which
\* logs the failure and returns False (PlaywrightComputer.click, move, type,
\* keypress, scroll, wait) or does nothing (LocalComputer.click outside the
\* screen); or failed with an exception that leaves the Driver (setup() of
\* PlaywrightComputer, any pyautogui error of LocalComputer).
ActionOutcomes == {"done", "swallowed", "raised"}

\* How Driver.screenshot can end: the page was captured; the capture failed
\* and PlaywrightComputer returned its "Screenshot Error" image instead; or
\* an exception left the Driver.
ShotOutcomes == {"captured", "error_image", "raised"}

\* Lines 171-190 with the given outcomes of the Driver action and of the
\* screenshot.  The action is self.actions[0]; its return value is dropped
\* (line 175: result = ...); the acknowledged checks are
\* self.pending_safety_checks.
DrainComputerCallWith(acts, shots) ==
    /\ Draining("computer_call")
    /\ LET item == previous_response.output[idx]
           action == actions(response)[1]
           acted == IF action.type # "screenshot"
                    THEN Append(effects,
                                [op |-> IF acts = "done" THEN "action"
                                        ELSE "action_failed",
                                 what |-> action.type,
                                 arg |-> action.arg])
                    ELSE effects
           eff == Append(acted,
                         [op |-> "screenshot",
                          what |-> IF shots = "captured" THEN ""
                                   ELSE "error_image",
                          arg |-> 0])
           output == ComputerCallOutput(item.call_id, Len(eff),
                                        pending_safety_checks(response))
       IN IF action.type \notin DriverMethods
          THEN DrainRaise("AttributeError")     \* getattr, line 173
          ELSE IF \/ action.type # "screenshot" /\ acts = "raised"
                  \/ shots = "raised"
          THEN DrainRaise("DriverError")        \* lines 175-180, not caught
          ELSE Advance(AppendOutput(inputs, output), eff)

\* Lines 171-190 with a Driver whose operations succeed.
DrainComputerCall == DrainComputerCallWith("done", "captured")

\* Lines 171-190 with a Driver whose operations may fail.
DrainComputerCallDriver ==
    \E acts \in ActionOutcomes, shots \in ShotOutcomes :
        DrainComputerCallWith(acts, shots)

\* Lines 191-205, with an unregistered tool skipped instead of raising.
DrainFunctionCallLenient ==
    /\ Draining("function_call")
    /\ LET item == previous_response.output[idx]
       IN IF ~ToolRegistered(item.name)
          THEN Advance(inputs, effects)
          ELSE Advance(
                 AppendOutput(inputs,
                    FunctionCallOutput(item.call_id,
                                       tools[ToolHandler(item.name)].func)),
                 Append(effects, [op |-> "handler",
                                  what |-> tools[ToolHandler(item.name)].func,
                                  arg |-> 0]))

\* Lines 191-205.
DrainFunctionCall ==
    /\ Draining("function_call")
    /\ LET item == previous_response.output[idx]
       IN IF ~ToolRegistered(item.name)
          THEN DrainRaise("ValueError")         \* line 195
          ELSE Advance(
                 AppendOutput(inputs,
                    FunctionCallOutput(item.call_id,
                                       tools[ToolHandler(item.name)].func)),
                 Append(effects, [op |-> "handler",
                                  what |-> tools[ToolHandler(item.name)].func,
                                  arg |-> 0]))

\* Lines 206-207, with a message that follows a computer_call rejected.
DrainInformationalStrict ==
    /\ pc = "drain"
    /\ previous_response.output[idx].type \in {"reasoning", "message"}
    /\ IF /\ previous_response.output[idx].type = "message"
          /\ \E i \in 1..(idx - 1) :
                previous_response.output[i].type = "computer_call"
       THEN DrainRaise("ValueError")
       ELSE Advance(inputs, effects)

\* Lines 206-207.
DrainInformational ==
    /\ pc = "drain"
    /\ previous_response.output[idx].type \in {"reasoning", "message"}
    /\ Advance(inputs, effects)

\* Lines 208-210, with the item skipped like a reasoning item.
DrainUnsupportedSkipped ==
    /\ pc = "drain"
    /\ previous_response.output[idx].type \notin
          {"computer_call", "function_call", "reasoning", "message"}
    /\ Advance(inputs, effects)

\* Lines 208-210.
DrainUnsupported ==
    /\ pc = "drain"
    /\ previous_response.output[idx].type \notin
          {"computer_call", "function_call", "reasoning", "message"}
    /\ DrainRaise("NotImplementedError")

\* Lines 216-226: an iteration of the retry loop begins; the coroutine
\* sleeps for `wait` seconds and sends the request.
Attempt ==
    /\ pc = "attempt"
    /\ attempt' = attempt + 1
    /\ nSleeps' = nSleeps + 1
    /\ slept' = wait
    /\ requests' = Append(requests, CreateRequest(inputs, previous_response_id))
    /\ nRequests' = nRequests + 1
    /\ pc' = "awaiting"
    /\ UNCHANGED <<other, services, device, response, tools, taskStarted, result, user_message,
                   previous_response, previous_response_id, inputs, idx,
                   wait, effects, nSignals, signal, lastOutcome, delivered>>

\* Lines 219-230: the model channel returns a response.
CreateReturns(r) ==
    /\ pc = "awaiting"
    /\ response' = r
    /\ delivered' = r
    /\ lastOutcome' = "response"
    /\ IF r.status = "completed"
       THEN Finish("returned")
       ELSE Finish("AssertionError")            \* line 229
    /\ UNCHANGED <<other, services, device, tools, taskStarted, nRequests, nSleeps, nSignals>>

\* Lines 231-238 with a backoff that adds each suggested wait to the last.
CreateRateLimitedAccumulates(hint) ==
    /\ pc = "awaiting"
    /\ lastOutcome' = "rate_limit"
    /\ nSignals' = nSignals + 1
    /\ IF LoopContinues(attempt)
       THEN /\ wait' = wait + ParseWait(hint)
            /\ signal' = hint
            /\ pc' = "attempt"
            /\ UNCHANGED <<result, user_message, previous_response,
                           previous_response_id, inputs, idx, attempt,
                           effects, requests, slept>>
       ELSE Finish("returned")
    /\ UNCHANGED <<other, services, device, response, tools, taskStarted, nRequests, nSleeps,
                   delivered>>

\* Lines 231-238: openai.RateLimitError; after the last iteration the loop
\* is left and continue_task returns.
CreateRateLimited(hint) ==
    /\ pc = "awaiting"
    /\ lastOutcome' = "rate_limit"
    /\ nSignals' = nSignals + 1
    /\ IF LoopContinues(attempt)
       THEN /\ wait' = ParseWait(hint)
            /\ signal' = hint
            /\ pc' = "attempt"
            /\ UNCHANGED <<result, user_message, previous_response,
                           previous_response_id, inputs, idx, attempt,
                           effects, requests, slept>>
       ELSE Finish("returned")
    /\ UNCHANGED <<other, services, device, response, tools, taskStarted, nRequests, nSleeps,
                   delivered>>

\* "except Exception" instead of "except openai.RateLimitError": the error
\* is swallowed and the loop goes on with the default wait.
CreateFailsRetried ==
    /\ pc = "awaiting"
    /\ lastOutcome' = "error"
    /\ IF LoopContinues(attempt)
       THEN /\ wait' = DefaultWait
            /\ pc' = "attempt"
            /\ UNCHANGED <<result, user_message, previous_response,
                           previous_response_id, inputs, idx, attempt,
                           effects, requests, slept, signal>>
       ELSE Finish("returned")
    /\ UNCHANGED <<other, services, device, response, tools, taskStarted, nRequests, nSleeps,
                   nSignals, delivered>>

\* Lines 217-231 with the response that was held on entry put back when
\* the request times out or the connection fails.
CreateRaisesRestores(kind) ==
    /\ pc = "awaiting"
    /\ lastOutcome' = "error"
    /\ response' = previous_response
    /\ Finish(kind)
    /\ UNCHANGED <<other, services, device, tools, taskStarted,
                   nRequests, nSleeps, nSignals, delivered>>

\* Lines 217-231: the request times out (openai.APITimeoutError) or the
\* connection fails (openai.APIConnectionError); neither is caught.
CreateRaises(kind) ==
    /\ pc = "awaiting"
    /\ lastOutcome' = "error"
    /\ Finish(kind)
    /\ UNCHANGED <<other, services, device, response, tools, taskStarted,
                   nRequests, nSleeps, nSignals, delivered>>

\* Lines 217-231: an exception that is not a RateLimitError is not caught.
CreateFails ==
    /\ pc = "awaiting"
    /\ lastOutcome' = "error"
    /\ Finish("APIError")
    /\ UNCHANGED <<other, services, device, response, tools, taskStarted, nRequests, nSleeps,
                   nSignals, delivered>>

\* The Agent's caller: registers tools, starts tasks and continues them,
\* one call at a time.
Caller ==
    \/ \E tool \in Schemas, f \in Handlers : add_tool(tool, f)
    \/ start_task
    \/ \E msg \in UserMessages : continue_task(msg)

\* The drain loop of continue_task.
Drain ==
    \/ DrainComputerCall
    \/ DrainFunctionCall
    \/ DrainInformational
    \/ DrainUnsupported

\* The model channel answers with a response of the given statuses and
\* outputs.
ChannelReturns(statuses, outputs) ==
    \E id \in ResponseIds \ {previous_response_id}, st \in statuses,
       out \in outputs : CreateReturns(Response(id, st, out))

\* Drain scenarios: the model channel answers every request with a
\* completed response of up to MaxItems items.
Next ==
    \/ Caller
    \/ Drain
    \/ Attempt
    \/ ChannelReturns({"completed"}, OutputsOf(ItemKinds, MaxItems))

Spec == Init /\ [][Next]_vars

\* Retry scenarios: the model channel may raise a rate-limit error or
\* another error on any attempt and may return a response that is not
\* completed; responses have up to MaxRetryItems items.
NextRetry ==
    \/ Caller
    \/ Drain
    \/ Attempt
    \/ ChannelReturns(Statuses, OutputsOf(ItemKinds, MaxRetryItems))
    \/ \E hint \in Hints : CreateRateLimited(hint)
    \/ CreateFails

SpecRetry == Init /\ [][NextRetry]_vars

\* The steps of a running continue_task in the retry scenarios.
TurnStepRetry ==
    \/ Drain
    \/ Attempt
    \/ ChannelReturns(Statuses, OutputsOf(ItemKinds, MaxRetryItems))
    \/ \E hint \in Hints : CreateRateLimited(hint)
    \/ CreateFails

\* The items of the batch scenarios: a computer call, a call of the tool
\* "lookup" and an assistant message.
BatchKinds ==
    { ComputerCall([type |-> "click", arg |-> 7], <<"chkA">>),
      FunctionCall("lookup"),
      PlainItem("message", "assistant") }

\* Batch scenarios: responses of several calls, and requests that are
\* retried after rate-limit errors.
NextBatch ==
    \/ Caller
    \/ DrainComputerCall
    \/ DrainFunctionCall
    \/ DrainInformational
    \/ Attempt
    \/ ChannelReturns({"completed"}, OutputsOf(BatchKinds, MaxBatchItems))
    \/ CreateRateLimited(NoHint)

SpecBatch == Init /\ [][NextBatch]_vars

\* The items of the Driver scenarios: a computer call with a click, a
\* computer call with the action "screenshot" and an assistant message.
DriverKinds ==
    { ComputerCall([type |-> "click", arg |-> 7], <<"chkA">>),
      ComputerCall([type |-> "screenshot", arg |-> 0], <<>>),
      PlainItem("message", "assistant") }

\* Driver scenarios: the Driver's actions and screenshots may fail.
NextDriver ==
    \/ Caller
    \/ DrainComputerCallDriver
    \/ DrainInformational
    \/ Attempt
    \/ ChannelReturns({"completed"}, OutputsOf(DriverKinds, MaxDriverItems))

SpecDriver == Init /\ [][NextDriver]_vars

\* The items of the action scenarios: a computer call with a click, a
\* computer call whose action type "fly" is no method of the computer
\* object, and an assistant message.
ActionKinds ==
    { ComputerCall([type |-> "click", arg |-> 7], <<"chkA">>),
      ComputerCall([type |-> "fly", arg |-> 9], <<>>),
      PlainItem("message", "assistant") }

\* Action scenarios: responses may hold an action type the computer object
\* does not implement.
NextActions ==
    \/ Caller
    \/ DrainComputerCall
    \/ DrainInformational
    \/ Attempt
    \/ ChannelReturns({"completed"}, OutputsOf(ActionKinds, MaxDriverItems))

SpecActions == Init /\ [][NextActions]_vars

\* The tools of the registry scenarios: two schemas of the name "lookup",
\* one of the name "search", and two handlers.
ToolSchemas ==
    {Schema("lookup", "v1"), Schema("lookup", "v2"), Schema("search", "v1")}

ToolHandlers == {"h1", "h2"}

\* The items of the registry scenarios: calls of the two tool names and an
\* assistant message.
ToolKinds ==
    { FunctionCall("lookup"),
      FunctionCall("search"),
      PlainItem("message", "assistant") }

\* Registry scenarios: the caller registers and re-registers tools between
\* turns; responses hold up to MaxToolItems items and requests are retried
\* after rate-limit errors.
NextTools ==
    \/ \E tool \in ToolSchemas, f \in ToolHandlers : add_tool(tool, f)
    \/ start_task
    \/ \E msg \in UserMessages : continue_task(msg)
    \/ DrainFunctionCall
    \/ DrainInformational
    \/ Attempt
    \/ ChannelReturns({"completed"}, OutputsOf(ToolKinds, MaxToolItems))
    \/ CreateRateLimited(NoHint)

SpecTools == Init /\ [][NextTools]_vars

\* Two callers of one Agent (BrowserInteractionTool._run runs continue_task
\* on the event loop of whichever thread calls it; Agent takes no lock):
\* the coroutine that was running is suspended where it stands and the
\* other one runs, from its own position with its own locals, on the same
\* self.response and self.tools.
Switch ==
    /\ other' = RunningFrame
    /\ pc' = other.pc
    /\ result' = other.result
    /\ user_message' = other.user_message
    /\ previous_response' = other.previous_response
    /\ previous_response_id' = other.previous_response_id
    /\ inputs' = other.inputs
    /\ idx' = other.idx
    /\ wait' = other.wait
    /\ attempt' = other.attempt
    /\ effects' = other.effects
    /\ requests' = other.requests
    /\ UNCHANGED <<services, device, response, tools, taskStarted, nRequests, nSleeps,
                   slept, nSignals, signal, lastOutcome, delivered>>

\* Lines 172-177, up to the awaited Driver action: the first suspension
\* point inside the handling of a computer_call.  self.actions reads
\* self.response, which another coroutine may have cleared or replaced.
DrainCallAction ==
    /\ Draining("computer_call")
    /\ IF response.kind # "response"
       THEN DrainRaise("AttributeError")        \* None.output, line 149
       ELSE IF actions(response) = <<>>
       THEN DrainRaise("IndexError")            \* self.actions[0], line 172
       ELSE IF actions(response)[1].type \notin DriverMethods
       THEN DrainRaise("AttributeError")        \* getattr, line 173
       ELSE /\ pc' = "capture"
            /\ effects' =
                  IF actions(response)[1].type # "screenshot"
                  THEN Append(effects, [op |-> "action",
                                        what |-> actions(response)[1].type,
                                        arg |-> actions(response)[1].arg])
                  ELSE effects
            /\ UNCHANGED <<other, services, device, response, tools, taskStarted, result,
                           user_message, previous_response,
                           previous_response_id, inputs, idx, wait, attempt,
                           requests, nRequests, nSleeps, slept, nSignals,
                           signal, lastOutcome, delivered>>

\* Lines 178-190: the awaited screenshot, then the call output, whose
\* acknowledged checks are read from self.response.
DrainCallCapture ==
    /\ pc = "capture"
    /\ LET item == previous_response.output[idx]
           eff == Append(effects, [op |-> "screenshot", what |-> "", arg |-> 0])
       IN IF response.kind # "response"
          THEN DrainRaise("AttributeError")     \* None.output, line 127
          ELSE Advance(
                 AppendOutput(inputs,
                    ComputerCallOutput(item.call_id, Len(eff),
                                       pending_safety_checks(response))),
                 eff)

\* Response ids of the overlap scenarios: enough for a new response to
\* differ from the responses both coroutines continue.
OverlapIds == {1, 2, 3}

\* The items of the overlap scenarios: a computer call and an assistant
\* message.
OverlapKinds ==
    { ComputerCall([type |-> "click", arg |-> 7], <<"chkA">>),
      PlainItem("message", "assistant") }

\* The model channel answers the running coroutine's request.
OverlapChannelReturns ==
    \E id \in OverlapIds \ {previous_response_id, other.previous_response_id},
       out \in OutputsOf(OverlapKinds, MaxOverlapItems) :
        CreateReturns(Response(id, "completed", out))

\* Overlap scenarios: two coroutines call continue_task on the same Agent;
\* the handling of a computer_call is split at its suspension point.
NextOverlap ==
    \/ Caller
    \/ DrainCallAction
    \/ DrainCallCapture
    \/ DrainInformational
    \/ Attempt
    \/ OverlapChannelReturns
    \/ Switch

SpecOverlap == Init /\ [][NextOverlap]_vars

\* ---------------------------------------------------------------- Scaler

\* int(a / b) of Python for integers a and b # 0: the quotient truncated
\* towards zero.
TruncDiv(a, b) ==
    LET q == (IF a < 0 THEN -a ELSE a) \div (IF b < 0 THEN -b ELSE b)
    IN IF (a < 0) # (b < 0) THEN -q ELSE q

\* ratio = min(width / self.screen_width, height / self.screen_height) as
\* the fraction <<numerator, denominator>>; both denominators have the
\* same sign (they are set together).
Ratio(s) ==
    IF s.size[1] * s.screen_height <= s.size[2] * s.screen_width
    THEN <<s.size[1], s.screen_width>>
    ELSE <<s.size[2], s.screen_height>>

\* The translation with the ratio multiplied instead of divided.
PointToScreenCoordsScaledDown(s, point) ==
    <<TruncDiv(point[1] * Ratio(s)[1], Ratio(s)[2]),
      TruncDiv(point[2] * Ratio(s)[1], Ratio(s)[2])>>

\* Scaler._point_to_screen_coords: (int(x / ratio), int(y / ratio)).
\* x / (n/d) is x*d / n.  On the canvases and screens below, the float
\* arithmetic of Python gives the exact quotient; elsewhere its rounding can
\* lose one unit when the quotient is a whole number (canvas (7, 5) on a
\* 200x100 screen: int(7 / 0.035) is 199).
PointToScreenCoords(s, point) ==
    <<TruncDiv(point[1] * Ratio(s)[2], Ratio(s)[1]),
      TruncDiv(point[2] * Ratio(s)[2], Ratio(s)[1])>>

\* The translation with the ratio multiplied instead of divided.
TranslatePathScaledDown(s, path) ==
    [i \in 1..Len(path) |->
        <<TruncDiv(path[i][1] * Ratio(s)[1], Ratio(s)[2]),
          TruncDiv(path[i][2] * Ratio(s)[1], Ratio(s)[2])>>]

\* Scaler.drag: [self._point_to_screen_coords(*point) for point in path]
TranslatePath(s, path) ==
    [i \in 1..Len(path) |-> PointToScreenCoords(s, path[i])]

\* The logical canvases: the small one, one that is larger than the 3x2
\* screen by a ratio of 5/3, and the one of the drag example.
Canvases == {<<MaxCoord, MaxCoord - 2>>, <<5, 4>>, <<100, 50>>}

\* The sizes of the images the Driver's screenshot returns for a canvas:
\* twice the canvas (ratio 0.5), the canvas (ratio 1), and sizes that are
\* smaller or of other proportions.
RealSizes(size) ==
    IF size = <<100, 50>>
    THEN {<<200, 100>>, <<100, 50>>, <<50, 25>>}
    ELSE {<<2 * size[1], 2 * size[2]>>, size, <<3, 2>>, <<9, 5>>}

\* The logical points of the model's actions: every point of the small
\* canvas, some points of the large one.
Points(size) ==
    IF size = <<100, 50>> THEN {<<0, 0>>, <<50, 0>>, <<100, 50>>}
    ELSE (0..size[1]) \X (0..size[2])

\* The points of drag paths.
PathPoints(size) == {<<0, 0>>, <<1, 1>>, size}

PointerOps == {"click", "double_click", "move", "scroll"}

\* Scaler.__init__
ScalerInit(dimensions) ==
    /\ scaler' = NewScaler(dimensions)
    /\ UNCHANGED <<dispatched, response, tools, taskStarted, pc, result,
                   locals, observed, other, services>>

\* Scaler.screenshot: the Driver's image gives the real screen size.
ScalerScreenshot(real) ==
    /\ scaler' = [scaler EXCEPT !.screen_width = real[1],
                                !.screen_height = real[2]]
    /\ dispatched' = [op |-> "screenshot", path |-> <<>>]
    /\ UNCHANGED <<response, tools, taskStarted, pc, result, locals,
                   observed, other, services>>

\* Scaler.click, double_click, scroll, move: the point is translated and
\* the call passed to the Driver.
ScalerPointer(op, point) ==
    /\ dispatched' = [op |-> op, path |-> <<PointToScreenCoords(scaler, point)>>]
    /\ UNCHANGED <<scaler, response, tools, taskStarted, pc, result, locals,
                   observed, other, services>>

\* Agent.actions (the points of a drag action as (x, y) pairs, in order)
\* and Scaler.drag.
ScalerDrag(path) ==
    /\ dispatched' = [op |-> "drag", path |-> TranslatePath(scaler, path)]
    /\ UNCHANGED <<scaler, response, tools, taskStarted, pc, result, locals,
                   observed, other, services>>

\* Scaler scenarios: a Scaler is constructed, takes screenshots and
\* translates pointer actions.
NextScaler ==
    \/ \E dimensions \in Canvases : ScalerInit(dimensions)
    \/ \E real \in RealSizes(scaler.size) : ScalerScreenshot(real)
    \/ \E op \in PointerOps, point \in Points(scaler.size) :
          ScalerPointer(op, point)
    \/ \E n \in 0..MaxPathLen :
          \E path \in [1..n -> PathPoints(scaler.size)] : ScalerDrag(path)

SpecScaler == Init /\ [][NextScaler]_vars

\* ---------------------------------------------------------- CircuitBreaker

\* CircuitBreaker.record_failure as a state transformer.
RecordFailure(cb, op) ==
    LET count == cb.fail_count[op] + 1
    IN [fail_count |-> [cb.fail_count EXCEPT ![op] = count],
        circuit_state |-> IF count >= fail_threshold
                          THEN [cb.circuit_state EXCEPT ![op] = "open"]
                          ELSE cb.circuit_state,
        expired |-> [cb.expired EXCEPT ![op] = FALSE]]

\* CircuitBreaker.record_success with the circuit state left as it is.
RecordSuccessKeepsState(cb, op) ==
    [cb EXCEPT !.fail_count[op] = 0]

\* CircuitBreaker.record_success as a state transformer.
RecordSuccess(cb, op) ==
    [cb EXCEPT !.fail_count[op] = 0, !.circuit_state[op] = "closed"]

\* CircuitBreaker.can_execute: closed (or never set), or open with the
\* reset timeout passed since the last failure.
can_execute(cb, op) ==
    \/ cb.circuit_state[op] \in {"unset", "closed"}
    \/ cb.expired[op]

\* The rest of the model is left alone by the CircuitBreaker's methods.
BreakerFrame ==
    UNCHANGED <<enhanced, orchestration, device, other, response, tools,
                taskStarted, pc, result, locals, observed>>

\* circuit_breaker.record_failure(operation)
record_failure(op) ==
    /\ circuit_breaker.fail_count[op] < MaxFailures
    /\ circuit_breaker' = RecordFailure(circuit_breaker, op)
    /\ BreakerFrame

\* circuit_breaker.record_success(operation)
record_success(op) ==
    /\ circuit_breaker' = RecordSuccess(circuit_breaker, op)
    /\ BreakerFrame

\* More than reset_timeout seconds pass after the last failure of the
\* operation.
ResetTimeoutPasses(op) ==
    /\ ~circuit_breaker.expired[op]
    /\ circuit_breaker' = [circuit_breaker EXCEPT !.expired[op] = TRUE]
    /\ BreakerFrame

\* CircuitBreaker scenarios: any sequence of failures and successes of the
\* operations, with time passing.
NextBreaker ==
    \/ \E op \in Operations : record_failure(op)
    \/ \E op \in Operations : record_success(op)
    \/ \E op \in Operations : ResetTimeoutPasses(op)

SpecBreaker == Init /\ [][NextBreaker]_vars

\* ----------------------------------------------------------- EnhancedAgent

\* The exceptions azure_retry retries.
Retryable == {"APITimeoutError", "APIConnectionError"}

\* Whether "screenshot" or "timeout" occurs in str(e).lower(): the text of
\* an exception of the client library, of the Driver or of a tool handler
\* is not fixed by this code; a bare assert and the AttributeError of the
\* missing attribute "response" have texts without either word.
MayMatch(kind) ==
    IF kind \in {"AssertionError", "AttributeError"} THEN {FALSE} ELSE BOOLEAN

\* The frame of the wrapper steps: the Agent's registry and the Scaler.
EnhancedFrame == UNCHANGED <<other, device, tools, taskStarted>>

\* PlaywrightComputer(..., performance_mode=args.performance_mode), before
\* the first call of the Agent.
ConfigurePerformanceMode(flag) ==
    /\ enhanced.pc = "idle"
    /\ enhanced.outcome = "none"
    /\ enhanced.performance_mode # flag
    /\ enhanced' = [enhanced EXCEPT !.performance_mode = flag]
    /\ UNCHANGED <<circuit_breaker, orchestration, other, device, response,
                   tools, taskStarted, pc, result, locals, observed>>

\* The caller calls agent.continue_task(user_input): azure_retry's wrapper
\* starts with retries = 0.
EnhancedContinueTask(msg) ==
    /\ enhanced.pc = "idle"
    /\ pc = "idle"
    /\ enhanced' = [enhanced EXCEPT !.pc = "invoke", !.retries = 0,
                                    !.invocations = 0, !.user_input = msg,
                                    !.degraded = FALSE, !.outcome = "running"]
    /\ UNCHANGED <<circuit_breaker, orchestration, other, device, response,
                   tools, taskStarted, pc, result, locals, observed>>

\* The wrapper invokes EnhancedAgent.continue_task (line 126), which checks
\* the screenshot circuit, forces performance_mode when it is open (lines
\* 273-282; the computer is a Scaler around a PlaywrightComputer) and calls
\* Agent.continue_task.
EnhancedInvoke ==
    /\ enhanced.pc = "invoke"
    /\ circuit_breaker.fail_count["screenshot"] < MaxFailures
    /\ LET degraded == ~can_execute(circuit_breaker, "screenshot")
       IN enhanced' =
            [enhanced EXCEPT
               !.pc = "inner",
               !.invocations = @ + 1,
               !.degraded = degraded,
               !.original_perf_mode =
                   IF degraded THEN enhanced.performance_mode ELSE @,
               !.performance_mode = IF degraded THEN TRUE ELSE @]
    /\ EnterContinueTask(enhanced.user_input)
    /\ UNCHANGED <<circuit_breaker, orchestration>>

\* What azure_retry does with an exception of the given kind (lines
\* 127-143), with every exception retried.
AfterExceptionRetriesAll(e, kind) ==
    IF e.retries + 1 > max_retries
    THEN [e EXCEPT !.pc = "idle", !.retries = @ + 1, !.outcome = kind]
    ELSE [e EXCEPT !.pc = "invoke", !.retries = @ + 1]

\* What azure_retry does with an exception of the given kind (lines
\* 127-143): a timeout or connection error is counted and, while retries
\* are left, followed by a sleep and another invocation; anything else is
\* raised again.
AfterException(e, kind) ==
    IF kind \in Retryable
    THEN IF e.retries + 1 > max_retries
         THEN [e EXCEPT !.pc = "idle", !.retries = @ + 1, !.outcome = kind]
         ELSE [e EXCEPT !.pc = "invoke", !.retries = @ + 1]
    ELSE [e EXCEPT !.pc = "idle", !.outcome = kind]

\* Lines 284-290 with the finally clause left out.
LeaveDegradedKeepsMode(e) == e

\* Lines 284-290: the finally clause restores performance_mode.
LeaveDegraded(e) ==
    [e EXCEPT !.performance_mode = e.original_perf_mode]

\* Agent.continue_task has returned: in degraded mode the success is
\* recorded (line 286) and the mode restored; the wrapper returns.
EnhancedReturns ==
    /\ enhanced.pc = "inner"
    /\ pc = "idle"
    /\ result = "returned"
    /\ IF enhanced.degraded
       THEN /\ circuit_breaker' = RecordSuccess(circuit_breaker, "screenshot")
            /\ enhanced' = [LeaveDegraded(enhanced) EXCEPT
                               !.pc = "idle", !.outcome = "returned"]
       ELSE /\ UNCHANGED circuit_breaker
            /\ enhanced' = [enhanced EXCEPT
                               !.pc = "idle", !.outcome = "returned"]
    /\ UNCHANGED <<orchestration, other, device, response, tools, taskStarted,
                   pc, result, locals, observed>>

\* Agent.continue_task has raised: in degraded mode the finally clause
\* restores the mode; otherwise a failure is recorded when the text of the
\* exception holds "screenshot" or "timeout" (lines 294-297); then
\* azure_retry decides.
EnhancedRaises ==
    /\ enhanced.pc = "inner"
    /\ pc = "idle"
    /\ result \notin {"returned", "running", "none"}
    /\ \E matches \in MayMatch(result) :
         IF enhanced.degraded
         THEN /\ UNCHANGED circuit_breaker
              /\ enhanced' = AfterException(LeaveDegraded(enhanced), result)
         ELSE /\ circuit_breaker' =
                    IF matches
                    THEN RecordFailure(circuit_breaker, "screenshot")
                    ELSE circuit_breaker
              /\ enhanced' = AfterException(enhanced, result)
    /\ UNCHANGED <<orchestration, other, device, response, tools, taskStarted,
                   pc, result, locals, observed>>

\* The items of the EnhancedAgent scenarios: a computer call and an
\* assistant message.
EnhancedKinds ==
    { ComputerCall([type |-> "click", arg |-> 7], <<"chkA">>),
      PlainItem("message", "assistant") }

\* EnhancedAgent scenarios (main_playwright.py): the caller starts a task
\* and calls the wrapped continue_task; the Driver may fail; the model
\* channel may time out, lose the connection or raise another error.
NextEnhanced ==
    \/ \E flag \in BOOLEAN : ConfigurePerformanceMode(flag)
    \/ enhanced.pc = "idle" /\ start_task
    \/ \E msg \in UserMessages : EnhancedContinueTask(msg)
    \/ EnhancedInvoke
    \/ EnhancedReturns
    \/ EnhancedRaises
    \/ DrainComputerCallDriver
    \/ DrainInformational
    \/ Attempt
    \/ ChannelReturns({"completed"}, OutputsOf(EnhancedKinds, MaxRetryItems))
    \/ \E kind \in Retryable : CreateRaises(kind)
    \/ CreateFails
    \/ ResetTimeoutPasses("screenshot")

SpecEnhanced == Init /\ [][NextEnhanced]_vars

\* --------------------------------------------------------- DirectNavigator

\* A task description, by what the patterns of extract_domain_from_task
\* find in it: a complete URL, a domain mention, a company name of
\* common_domains (each the domain found, or NoDomain).
Task(url, mention, company) ==
    [url |-> url, mention |-> mention, company |-> company]

Tasks ==
    { Task("example.com", NoDomain, NoDomain),
      Task("github.com", "example.com", NoDomain),
      Task(NoDomain, "example.com", "github.com"),
      Task(NoDomain, NoDomain, "github.com"),
      Task(NoDomain, NoDomain, NoDomain) }

\* DirectNavigator.extract_domain_from_task: the URL first, then the
\* domain mention, then the company name.
extract_domain_from_task(task) ==
    IF task.url # NoDomain THEN task.url
    ELSE IF task.mention # NoDomain THEN task.mention
    ELSE task.company

\* What one page.goto of the retry loop leads to: the page loads on the
\* target domain, loads on another domain, answers with a failure status
\* (or no response), or the attempt raises.
GotoOutcomes == {"on_target", "redirect", "not_ok", "raises"}

\* The runs of the retry loop: every attempt but the last fails, and a run
\* ends with the first page that loads or with attempt 1 + max_retries.
Runs ==
    { run \in UNION { [1..n -> GotoOutcomes] : n \in 1..(goto_max_retries + 1) } :
        /\ \A i \in 1..(Len(run) - 1) : run[i] \in {"not_ok", "raises"}
        /\ Len(run) < goto_max_retries + 1
              => run[Len(run)] \in {"on_target", "redirect"} }

\* The cap applied one call late.
ExceededLate(attempts, domain) ==
    attempts[domain] > max_navigation_attempts + 1

\* Line 109: the counter of the domain is past max_navigation_attempts.
Exceeded(attempts, domain) ==
    attempts[domain] > max_navigation_attempts

\* The rest of the model is left alone by the DirectNavigator.
NavigatorFrame ==
    UNCHANGED <<crew, circuit_breaker, enhanced, device, other, response,
                tools, taskStarted, pc, result, locals, observed>>

\* DirectNavigator.navigate_directly(task), with the page available or
\* not and the run the retry loop would take.
navigate_directly(task, page, run) ==
    LET domain == extract_domain_from_task(task)
    IN  IF domain = NoDomain
        THEN /\ navigator' = [navigator EXCEPT !.domain = NoDomain,
                                          !.gotos = 0,
                                          !.returned = FALSE]
             /\ NavigatorFrame
        ELSE /\ navigator.calls[domain] < MaxNavCalls
             /\ LET attempts == [navigator.navigation_attempts
                                   EXCEPT ![domain] = @ + 1]
                    counted == [navigator EXCEPT
                                  !.navigation_attempts = attempts,
                                  !.calls[domain] = @ + 1,
                                  !.domain = domain]
                    last == run[Len(run)]
                IN  navigator' =
                      IF Exceeded(attempts, domain) \/ ~page
                      THEN [counted EXCEPT !.failed_navigations = @ + 1,
                                           !.gotos = 0,
                                           !.returned = FALSE]
                      ELSE IF last = "on_target"
                      THEN [counted EXCEPT !.successful_navigations = @ + 1,
                                           !.gotos = Len(run),
                                           !.returned = TRUE]
                      ELSE IF last = "redirect"
                      THEN [counted EXCEPT !.redirects_encountered = @ + 1,
                                           !.gotos = Len(run),
                                           !.returned = TRUE]
                      ELSE [counted EXCEPT !.failed_navigations = @ + 1,
                                           !.gotos = Len(run),
                                           !.returned = FALSE]
             /\ NavigatorFrame

\* DirectNavigator scenarios: any sequence of navigation tasks.
NextNavigator ==
    \E task \in Tasks, page \in BOOLEAN, run \in Runs :
        navigate_directly(task, page, run)

SpecNavigator == Init /\ [][NextNavigator]_vars

\* -------------------------------------------------------- CrewOrchestration

\* A user instruction, by whether it holds one of the question words and
\* whether it holds "search" (itself one of the question words).
Instructions ==
    { [question |-> q, search |-> s] : q \in BOOLEAN, s \in BOOLEAN }

\* Lines 626-638: a question that does not mention "search" is augmented.
AugmentedInput(instruction) ==
    LET is_question == instruction.question \/ instruction.search
    IN  IF is_question /\ ~instruction.search
        THEN "augmented" ELSE "instruction"

\* Lines 649-658: the reply ends the loop.
Stops(reply) == reply.final_answer \/ ~reply.observations

\* for turn in range(MAX_TURNS + 1)
TurnsRemainOneMore(turns) == turns < MAX_TURNS + 1

\* for turn in range(MAX_TURNS), after the given number of turns.
TurnsRemain(turns) == turns < MAX_TURNS

\* Line 674 followed by line 691, as if the code after the increment of
\* tasks_completed raised.
CountCompletedAndError(c) ==
    [c EXCEPT !.tasks_completed = @ + 1, !.errors = @ + 1]

\* Line 617: self.metrics["tasks_started"] += 1
CountStarted(c) == [c EXCEPT !.tasks_started = @ + 1]

\* Line 674: self.metrics["tasks_completed"] += 1
CountCompleted(c) == [c EXCEPT !.tasks_completed = @ + 1]

\* Line 691: self.metrics["errors"] += 1
CountError(c) == [c EXCEPT !.errors = @ + 1]

\* What ends the await of the executor other than a reply: an exception
\* of the executor, or the cancellation of the task by the event loop
\* (asyncio.CancelledError is no Exception).
ExecutorFailures == {"Exception", "CancelledError"}

\* The rest of the model is left alone by CrewOrchestration.
CrewFrame ==
    UNCHANGED <<navigator, circuit_breaker, enhanced, device, other,
                response, tools, taskStarted, pc, result, locals, observed>>

\* CrewOrchestration.execute_task(user_instruction), up to the first await
\* of the agent executor (lines 616-643).
execute_task(user_instruction) ==
    /\ crew.pc = "idle"
    /\ crew.tasks_started < MaxTasks
    /\ crew' = [CountStarted(crew) EXCEPT
                  !.pc = "awaiting",
                  !.latest_input = AugmentedInput(user_instruction),
                  !.all_turns = <<>>,
                  !.runs = 1,
                  !.result = NoResult,
                  !.outcome = "running"]
    /\ CrewFrame

\* The executor returns a reply (lines 643-688): the reply ends the loop,
\* or its observations become the next input and the executor runs again,
\* or the turns are used up.
AgentReplies(agent_reply) ==
    /\ crew.pc = "awaiting"
    /\ LET all_turns == Append(crew.all_turns, agent_reply)
           turns == Len(all_turns)
           returns(res) ==
               [CountCompleted(crew) EXCEPT
                  !.pc = "idle", !.all_turns = all_turns,
                  !.result = res, !.outcome = "returned"]
       IN  crew' =
             IF Stops(agent_reply)
             THEN returns([kind |-> "reply", turn |-> turns,
                           reply |-> agent_reply])
             ELSE IF TurnsRemain(turns)
             THEN [crew EXCEPT !.all_turns = all_turns,
                               !.latest_input = "observations",
                               !.runs = @ + 1]
             ELSE returns([kind |-> "max_turns", turn |-> turns,
                           reply |-> all_turns[Len(all_turns)]])
    /\ CrewFrame

\* The await of the executor ends with an exception (lines 689-708), or
\* with the cancellation of the task, which no handler of execute_task
\* catches.
AgentRaises(kind) ==
    /\ crew.pc = "awaiting"
    /\ crew' =
         IF kind = "Exception"
         THEN [CountError(crew) EXCEPT
                 !.pc = "idle",
                 !.result = [NoResult EXCEPT !.kind = "failed"],
                 !.outcome = "raised"]
         ELSE [crew EXCEPT !.pc = "idle", !.outcome = "cancelled"]
    /\ CrewFrame

\* A step of a running execute_task.
CrewStep ==
    \/ \E agent_reply \in Replies : AgentReplies(agent_reply)
    \/ \E kind \in ExecutorFailures : AgentRaises(kind)

\* CrewOrchestration scenarios: the REPL loop of main calls execute_task
\* for one instruction after the other.
NextCrew ==
    \/ \E user_instruction \in Instructions : execute_task(user_instruction)
    \/ \E agent_reply \in Replies : AgentReplies(agent_reply)
    \/ \E kind \in ExecutorFailures : AgentRaises(kind)

SpecCrew == Init /\ [][NextCrew]_vars

\* ------------------------------------------------------------------ claims

RECURSIVE CallItems(_)
\* The computer_call and function_call items of an output, in order.
CallItems(output) ==
    IF output = <<>> THEN <<>>
    ELSE IF Head(output).type \in {"computer_call", "function_call"}
         THEN <<Head(output)>> \o CallItems(Tail(output))
         ELSE CallItems(Tail(output))

RECURSIVE CallEntries(_)
\* The call outputs of a request input, in order (the user message left out).
CallEntries(input) ==
    IF input = <<>> THEN <<>>
    ELSE IF Head(input).type # "message"
         THEN <<Head(input)>> \o CallEntries(Tail(input))
         ELSE CallEntries(Tail(input))

OutputTypeFor(itemType) ==
    IF itemType = "computer_call" THEN "computer_call_output"
    ELSE "function_call_output"

InFlight == pc \in {"attempt", "awaiting"}

\* C1 (drain ordering): every request sent by continue_task carries exactly
\* one call output per computer_call and function_call item of the response
\* it drained, in item order, each with the call id of its own item;
\* reasoning and message items add no entry.
C1_DrainOrdering ==
    \A i \in 1..Len(requests) :
        LET entries == CallEntries(requests[i].input)
            calls == CallItems(previous_response.output)
        IN /\ Len(entries) = Len(calls)
           /\ \A j \in 1..Len(calls) :
                /\ entries[j].call_id = calls[j].call_id
                /\ entries[j].type = OutputTypeFor(calls[j].type)

\* A request was sent after draining [computer_call, function_call,
\* computer_call]; its three entries carry the call ids 1, 2, 3.
C1_Witness ==
    /\ pc = "awaiting"
    /\ Len(previous_response.output) = 3
    /\ previous_response.output[1].type = "computer_call"
    /\ previous_response.output[2].type = "function_call"
    /\ previous_response.output[3].type = "computer_call"
    /\ Len(CallEntries(requests[1].input)) = 3
    /\ CallEntries(requests[1].input)[1].call_id = 1
    /\ CallEntries(requests[1].input)[3].call_id = 3

RECURSIVE PerformedActions(_)
\* The Driver actions among the effects, in order.
PerformedActions(eff) ==
    IF eff = <<>> THEN <<>>
    ELSE IF Head(eff).op = "action"
         THEN <<[type |-> Head(eff).what, arg |-> Head(eff).arg]>>
              \o PerformedActions(Tail(eff))
         ELSE PerformedActions(Tail(eff))

\* The items continue_task has drained so far.
DrainedItems ==
    IF pc = "drain" THEN SubSeq(previous_response.output, 1, idx - 1)
    ELSE IF InFlight THEN previous_response.output
    ELSE <<>>

\* C2 (own action): the Driver actions performed while draining are the
\* actions of the drained computer_call items, each item's own, in order.
C2_OwnActionInvoked ==
    PerformedActions(effects) =
        [i \in 1..Len(ComputerCalls(DrainedItems)) |->
            ComputerCalls(DrainedItems)[i].action]

\* Some function_call item of the response names a tool that is not
\* registered.
HasUnregisteredCall(resp) ==
    \E i \in 1..Len(resp.output) :
        /\ resp.output[i].type = "function_call"
        /\ ~ToolRegistered(resp.output[i].name)

\* C3 (unknown tool fails the turn): a continue_task whose held response
\* has a function_call of an unregistered tool never reaches the submission
\* step, and when it raises for the unknown tool no request has been sent.
C3_UnknownToolFailsTurn ==
    /\ InFlight => ~HasUnregisteredCall(previous_response)
    /\ result = "ValueError" => pc = "idle" /\ nRequests = 0

\* continue_task raised for an unknown tool that had an item before it and
\* an item after it; nothing was sent and the response is still held.
C3_Witness ==
    /\ pc = "idle"
    /\ result = "ValueError"
    /\ nRequests = 0
    /\ Len(response.output) = 3
    /\ response.output[1].type = "computer_call"
    /\ response.output[2].type = "function_call"
    /\ HasUnregisteredCall(response)

\* C4 (rate-limit retry): while a request is awaited, continue_task has
\* slept once before the first attempt (asyncio.sleep(0)) and once more per
\* rate-limit error, each time for the duration the latest error suggested,
\* and has sent one request more than it got rate-limit errors; when the
\* request then succeeds, the response returned is the held response.
C4_RateLimitRetry ==
    /\ [](pc = "awaiting" =>
            /\ nSleeps = nSignals + 1
            /\ nRequests = nSignals + 1
            /\ nSignals = 0 => slept = 0
            /\ (nSignals >= 1 /\ signal # NoHint) => slept = signal)
    /\ [][(pc = "awaiting" /\ pc' = "idle" /\ result' = "returned"
           /\ lastOutcome' = "response") =>
            /\ nSleeps' = nSignals' + 1
            /\ nRequests' = nSignals' + 1
            /\ response' = delivered'
            /\ response'.kind = "response"
            /\ response'.status = "completed"]_vars

\* Two rate-limit errors, then success: two backoff sleeps after the
\* initial one, three requests, the last one successful.
C4_Witness ==
    /\ pc = "idle"
    /\ result = "returned"
    /\ lastOutcome = "response"
    /\ nSignals = 2
    /\ nSleeps = 3
    /\ nRequests = 3
    /\ response.kind = "response"

\* The backoff sleep after a rate-limit error that suggested 3s lasts 3s.
C4_WitnessBackoff ==
    /\ pc = "awaiting"
    /\ nSignals = 1
    /\ signal = 3
    /\ slept = 3

\* C5 (exhaustion is an error): when all ten attempts were rate-limited,
\* continue_task ends by raising, not by returning.
C5_ExhaustionRaises ==
    (pc = "idle" /\ nSignals = MaxAttempts) => result # "returned"

\* The steps a running continue_task has left at most: the items still to
\* drain, then a sleep-and-send step and an answer per remaining attempt.
StepsLeft ==
    IF pc = "drain"
        THEN (Len(previous_response.output) - idx + 1) + 2 * MaxAttempts
    ELSE IF pc = "attempt" THEN 2 * (MaxAttempts - attempt)
    ELSE IF pc = "awaiting" THEN 2 * (MaxAttempts - attempt) + 1
    ELSE 0

\* C6 (bounded retry): one continue_task sends at most 10 model requests
\* and always terminates: a running call can always take a step, and every
\* step lowers StepsLeft, which never goes below zero.
C6_BoundedRetry ==
    /\ [](nRequests <= 10)
    /\ [](StepsLeft >= 0)
    /\ [](pc # "idle" => ENABLED TurnStepRetry)
    /\ [][pc # "idle" => StepsLeft' < StepsLeft]_vars

\* continue_task ended after ten rate-limited requests.
C6_Witness ==
    /\ pc = "idle"
    /\ nSignals = MaxAttempts
    /\ nRequests = MaxAttempts

\* C7 (other failures propagate): a model request that failed with an error
\* other than a rate-limit error is the last thing its continue_task did:
\* the call has ended with that error, no sleep and no request followed.
C7_ErrorPropagates ==
    lastOutcome = "error" =>
        /\ pc = "idle"
        /\ result = "APIError"
        /\ nRequests = nSignals + 1
        /\ nSleeps = nRequests

\* The request failed on the second attempt, after one rate-limit error.
C7_Witness ==
    /\ lastOutcome = "error"
    /\ result = "APIError"
    /\ nSignals = 1
    /\ nRequests = 2

\* C8 (continuation chaining): every request of a continue_task, retries
\* included, carries the id of the response that was held when the call
\* began, and no id when none was held.
C8_ContinuationChaining ==
    \A i \in 1..Len(requests) :
        requests[i].previous_response_id =
            IF previous_response.kind = "response"
            THEN previous_response.id ELSE NoId

\* A retry of a request that continues a held response carries its id.
C8_Witness ==
    /\ pc = "awaiting"
    /\ Len(requests) = 3
    /\ previous_response.kind = "response"
    /\ requests[3].previous_response_id = previous_response.id
    /\ requests[3].previous_response_id # NoId

\* C9 (held response is completed): a held response has status completed.
C9_HeldIsCompleted ==
    response.kind = "response" => response.status = "completed"

\* C10 (initial state is NoResponse): before any start_task no response is
\* held (None), requires_user_input is true and continue_task does not fail
\* on the missing response.
C10_InitialNoResponse ==
    ~taskStarted =>
        /\ response = NoneResponse
        /\ requires_user_input(response) = "True"
        /\ result # "AttributeError"

\* C11 (start_task resets): from any state between two calls, start_task
\* leaves no response held and requires_user_input true; a continue_task
\* that begins with no response held drains nothing (no Driver action, no
\* handler, no call output) and every request it sends carries no
\* previous_response_id.
C11_StartTaskResets ==
    /\ [][start_task =>
            /\ response' = NoneResponse
            /\ requires_user_input(response') = "True"]_vars
    /\ [][(response = NoneResponse /\ pc = "idle" /\ pc' # "idle") =>
            /\ pc' = "attempt"
            /\ effects' = <<>>
            /\ CallEntries(inputs') = <<>>
            /\ previous_response_id' = NoId]_vars
    /\ []((InFlight /\ previous_response = NoneResponse) =>
            /\ effects = <<>>
            /\ \A i \in 1..Len(requests) :
                  /\ requests[i].previous_response_id = NoId
                  /\ CallEntries(requests[i].input) = <<>>)

\* start_task has cleared the response that the last continue_task returned
\* and left held (a response with calls to drain).
C11_Witness ==
    /\ pc = "idle"
    /\ taskStarted
    /\ response = NoneResponse
    /\ result = "returned"
    /\ lastOutcome = "response"
    /\ delivered.kind = "response"
    /\ CallItems(delivered.output) # <<>>

\* The last output item of the response is an assistant message.
EndsWithAssistantMessage(resp) ==
    /\ Len(resp.output) > 0
    /\ resp.output[Len(resp.output)].type = "message"
    /\ resp.output[Len(resp.output)].role = "assistant"

\* The stated semantics of requires_user_input for the Agent's response.
UserInputSemantics(resp) ==
    /\ requires_user_input(resp) = "True" <=>
          \/ resp.kind # "response"
          \/ Len(resp.output) = 0
          \/ EndsWithAssistantMessage(resp)
    /\ requires_user_input(resp) \in {"True", "False"}
    /\ (resp.kind = "response" /\ Len(resp.output) = 1
            /\ resp.output[1].type = "message") =>
          requires_user_input(resp) = "True"
    /\ (resp.kind = "response" /\ Len(resp.output) = 1
            /\ resp.output[1].type = "computer_call") =>
          /\ requires_user_input(resp) = "False"
          /\ requires_consent(resp) = "True"

\* C12 (requires_user_input semantics): requires_user_input is true exactly
\* when no response is held, or the held response has no output items, or
\* its last item is an assistant message; a response of one assistant
\* message yields true, a response of one computer_call yields
\* requires_user_input false and requires_consent true.
C12_RequiresUserInput == UserInputSemantics(response)

\* The same semantics once start_task has been called.
C12_AfterStartTask == taskStarted => UserInputSemantics(response)

\* The response has a computer_call item and a later message item.
Mixed(resp) ==
    \E i, j \in 1..Len(resp.output) :
        /\ i < j
        /\ resp.output[i].type = "computer_call"
        /\ resp.output[j].type = "message"

\* C13 as stated (protocol violation fails fast): a held response with a
\* computer_call and a later message makes the cycle fail: no
\* requires_user_input flag is reported for it and a continue_task on it
\* never gets to submit.
C13_MixedFailsFast ==
    /\ Mixed(response) => requires_user_input(response) \notin {"True", "False"}
    /\ InFlight => ~Mixed(previous_response)

\* C13 (amended): a held response with a computer_call and a later message
\* is not rejected.  requires_user_input is reported for it (true when the
\* message is last); draining the message after the call raises nothing,
\* invokes nothing and adds no entry; and when such a response has been
\* drained, the payload holds one call output per call item.
C13_MixedIsDrained ==
    /\ [](Mixed(response) =>
            requires_user_input(response) =
                IF EndsWithAssistantMessage(response) THEN "True" ELSE "False")
    /\ [][(/\ pc = "drain"
           /\ previous_response.output[idx].type = "message"
           /\ ComputerCalls(SubSeq(previous_response.output, 1, idx - 1))
                 # <<>>) =>
            /\ pc' \in {"drain", "attempt"}
            /\ result' = "running"
            /\ effects' = effects
            /\ CallEntries(inputs') = CallEntries(inputs)]_vars
    /\ []((InFlight /\ Mixed(previous_response)) =>
            Len(CallEntries(inputs)) = Len(CallItems(previous_response.output)))

\* The response [computer_call, message] was drained and a request with the
\* one call output was sent.
C13_Witness ==
    /\ pc = "awaiting"
    /\ Len(previous_response.output) = 2
    /\ previous_response.output[1].type = "computer_call"
    /\ previous_response.output[2].type = "message"
    /\ Len(requests) = 1
    /\ Len(CallEntries(requests[1].input)) = 1
    /\ Len(effects) = 2

\* C14 (acknowledged checks are the call's own): every computer_call_output
\* of the payload acknowledges exactly the safety checks pending on the
\* computer_call with the same call id, none of another call.
C14_AcknowledgesOwnChecks ==
    \A j \in 1..Len(inputs) :
        inputs[j].type = "computer_call_output" =>
            inputs[j].acknowledged_safety_checks =
                previous_response.output[inputs[j].call_id].pending_safety_checks

\* With a single computer_call in the response the acknowledged checks are
\* that call's.
C14_SingleCallOwnChecks ==
    Len(ComputerCalls(previous_response.output)) <= 1 => C14_AcknowledgesOwnChecks

SupportedTypes == {"computer_call", "function_call", "reasoning", "message"}

\* Some item of the response has a type the drain loop does not handle.
HasUnsupportedItem(resp) ==
    \E i \in 1..Len(resp.output) : resp.output[i].type \notin SupportedTypes

\* C15 (unsupported item type): a continue_task whose held response has an
\* item of a type other than computer_call, function_call, reasoning and
\* message never reaches the submission step; when the drain loop comes to
\* that item the call ends with the unsupported-item error, and no request
\* was sent in that turn.
C15_UnsupportedItemFailsTurn ==
    /\ [](InFlight => ~HasUnsupportedItem(previous_response))
    /\ [](result = "NotImplementedError" => (pc = "idle" /\ nRequests = 0))
    /\ [][(/\ pc = "drain"
           /\ previous_response.output[idx].type \notin SupportedTypes) =>
            /\ pc' = "idle"
            /\ result' = "NotImplementedError"
            /\ nRequests' = 0
            /\ requests' = <<>>]_vars

\* continue_task raised for the unsupported item that followed a drained
\* computer_call; nothing was sent and the response is still held.
C15_Witness ==
    /\ pc = "idle"
    /\ result = "NotImplementedError"
    /\ nRequests = 0
    /\ Len(response.output) >= 2
    /\ response.output[1].type = "computer_call"
    /\ response.output[2].type = "web_search_call"

\* The payload is the call outputs of the drained response followed, when
\* msg is not empty, by one user message with that content.
PayloadWithMessage(input, msg) ==
    LET n == Len(CallItems(previous_response.output))
    IN /\ \A j \in 1..n :
             /\ j <= Len(input)
             /\ input[j].type \in {"computer_call_output",
                                   "function_call_output"}
       /\ IF msg # ""
          THEN /\ Len(input) = n + 1
               /\ input[n + 1] = Message(msg)
               /\ input[n + 1].role = "user"
          ELSE Len(input) = n

\* C16 (user message after the call outputs): the payload of every request
\* holds every drained call output and, after them, one user message with
\* the content given to continue_task when that content is not empty; with
\* an empty user message the payload has no message entry.
C16_UserMessageAppended ==
    /\ InFlight => PayloadWithMessage(inputs, user_message)
    /\ \A i \in 1..Len(requests) :
          PayloadWithMessage(requests[i].input, user_message)

\* A request was sent with two call outputs followed by the user message.
C16_Witness ==
    /\ pc = "awaiting"
    /\ user_message = "go"
    /\ Len(CallItems(previous_response.output)) = 2
    /\ Len(requests[1].input) = 3
    /\ requests[1].input[3] = Message("go")

RECURSIVE CountOp(_, _)
\* The number of effects of the given kind.
CountOp(eff, op) ==
    IF eff = <<>> THEN 0
    ELSE (IF Head(eff).op = op THEN 1 ELSE 0) + CountOp(Tail(eff), op)

RECURSIVE CountType(_, _)
\* The number of output items of the given type.
CountType(output, type) ==
    IF output = <<>> THEN 0
    ELSE (IF Head(output).type = type THEN 1 ELSE 0)
         + CountType(Tail(output), type)

\* C17 (synchronization barrier): when a continue_task has issued a model
\* request, the screenshot of every computer_call, the Driver action of
\* every computer_call and the handler of every function_call of the held
\* response have completed; from the first request of the turn on, no
\* Driver action, screenshot or handler runs.
C17_Barrier ==
    /\ []((InFlight \/ Len(requests) >= 1) =>
            /\ CountOp(effects, "screenshot") =
                  CountType(previous_response.output, "computer_call")
            /\ CountOp(effects, "action") =
                  CountType(previous_response.output, "computer_call")
            /\ CountOp(effects, "handler") =
                  CountType(previous_response.output, "function_call")
            /\ Len(effects) =
                  2 * CountType(previous_response.output, "computer_call")
                  + CountType(previous_response.output, "function_call"))
    /\ [][(InFlight /\ pc' # "idle") => effects' = effects]_vars
    /\ [](pc = "drain" => (nRequests = 0 /\ requests = <<>>))

\* The third request of a turn is awaited; the action and screenshot of the
\* computer_call and the handler of the function_call completed before the
\* first.
C17_Witness ==
    /\ pc = "awaiting"
    /\ Len(requests) = 3
    /\ CountType(previous_response.output, "computer_call") = 1
    /\ CountType(previous_response.output, "function_call") = 1
    /\ Len(effects) = 3

RECURSIVE DriverInvocations(_)
\* The Driver primitives invoked while draining, in order (handlers left
\* out): the action's name, or "screenshot" for a capture.
DriverInvocations(eff) ==
    IF eff = <<>> THEN <<>>
    ELSE IF Head(eff).op \in {"action", "action_failed"}
         THEN <<Head(eff).what>> \o DriverInvocations(Tail(eff))
    ELSE IF Head(eff).op = "screenshot"
         THEN <<"screenshot">> \o DriverInvocations(Tail(eff))
    ELSE DriverInvocations(Tail(eff))

RECURSIVE InvocationsFor(_)
\* One invocation of the call's action and then one capture per
\* computer_call; for the action "screenshot" the capture only.
InvocationsFor(calls) ==
    IF calls = <<>> THEN <<>>
    ELSE (IF Head(calls).action.type = "screenshot"
          THEN <<"screenshot">>
          ELSE <<Head(calls).action.type, "screenshot">>)
         \o InvocationsFor(Tail(calls))

\* C18 (one action and one screenshot per call): the Driver primitives
\* invoked while draining are, per drained computer_call and in order, one
\* invocation of its action followed by one screenshot capture; for a call
\* whose action is "screenshot" nothing but the capture.
C18_OneActionOneScreenshot ==
    DriverInvocations(effects) = InvocationsFor(ComputerCalls(DrainedItems))

\* The same for responses with at most one computer_call.
C18_SingleCall ==
    Len(ComputerCalls(previous_response.output)) <= 1 =>
        C18_OneActionOneScreenshot

RECURSIVE DriverFailed(_)
\* Some Driver action or screenshot among the effects failed.
DriverFailed(eff) ==
    IF eff = <<>> THEN FALSE
    ELSE \/ Head(eff).op = "action_failed"
         \/ Head(eff).op = "screenshot" /\ Head(eff).what = "error_image"
         \/ DriverFailed(Tail(eff))

\* C20 (Driver failures propagate): no request is submitted in a turn in
\* which a Driver action or screenshot failed (the failure ends
\* continue_task; it is not passed over), and a call that ended with a
\* Driver error has sent no request.
C20_DriverFailurePropagates ==
    /\ Len(requests) >= 1 => ~DriverFailed(effects)
    /\ result = "DriverError" => (pc = "idle" /\ nRequests = 0)

\* An exception that leaves the Driver ends the turn before any request.
C20_RaisedFailureEndsTurn ==
    result = "DriverError" => (pc = "idle" /\ nRequests = 0)

\* Both coroutines are inside continue_task.
BothInFlight == pc # "idle" /\ other.pc # "idle"

\* C19 (one continue_task in flight): calls of continue_task on one Agent
\* do not overlap in a way that lets two of them drain the same held
\* response: no computer_call of a held response has its action executed
\* by two calls.
C19_SingleFlight ==
    (BothInFlight /\ previous_response.kind = "response"
        /\ other.previous_response = previous_response) =>
       ~(PerformedActions(effects) # <<>>
           /\ PerformedActions(other.effects) # <<>>)

\* C21 (translation before any screenshot fails explicitly): while the
\* Scaler has taken no screenshot (the real size is unknown), nothing but a
\* screenshot is passed to the Driver: a pointer operation dispatches
\* nothing.
C21_NoDispatchBeforeScreenshot ==
    [][scaler.screen_width = -1 =>
         (dispatched' = dispatched \/ dispatched'.op = "screenshot")]_vars

\* q is p divided by the ratio of s and truncated, in each coordinate
\* (ratio > 0): q * ratio <= p < (q + 1) * ratio.
IsTranslationOf(s, q, p) ==
    \A k \in 1..2 :
        /\ q[k] * Ratio(s)[1] <= p[k] * Ratio(s)[2]
        /\ p[k] * Ratio(s)[2] < (q[k] + 1) * Ratio(s)[1]

\* C25 (drag path translation): a drag passes to the Driver a path with as
\* many points as the logical path, in the same order, each point the
\* translation of the logical point at its position (once the real size is
\* known); under the ratio 0.5 the path [(0,0), (100,50)] reaches the
\* Driver as [(0,0), (200,100)].
C25_DragPathTranslated ==
    [][dispatched'.op = "drag" =>
        \A n \in 0..MaxPathLen :
          \A path \in [1..n -> PathPoints(scaler.size)] :
            (/\ dispatched'.path = TranslatePath(scaler, path)
             /\ ScalerDrag(path)) =>
              /\ Len(dispatched'.path) = Len(path)
              /\ scaler.screen_width > 0 =>
                    \A i \in 1..Len(path) :
                        IsTranslationOf(scaler, dispatched'.path[i], path[i])
              /\ (/\ scaler.size = <<100, 50>>
                  /\ scaler.screen_width = 200
                  /\ scaler.screen_height = 100
                  /\ path = <<(<<0, 0>>), (<<100, 50>>)>>) =>
                    dispatched'.path = <<(<<0, 0>>), (<<200, 100>>)>>]_vars

\* The drag of the example reached the Driver as [(0,0), (200,100)].
C25_Witness ==
    /\ scaler = [size |-> <<100, 50>>, screen_width |-> 200,
                 screen_height |-> 100]
    /\ dispatched = [op |-> "drag", path |-> <<(<<0, 0>>), (<<200, 100>>)>>]

\* The real point q, scaled back by the ratio of s, is within 1 unit of the
\* logical point p in each coordinate: |q * ratio - p| <= 1.
BackWithinOne(s, q, p) ==
    \A k \in 1..2 :
        /\ q[k] * Ratio(s)[1] - p[k] * Ratio(s)[2] <= Ratio(s)[2]
        /\ p[k] * Ratio(s)[2] - q[k] * Ratio(s)[1] <= Ratio(s)[2]

\* C26 as stated (coordinate round-trip): for every point of the canvas and
\* every positive ratio, the point passed to the Driver, multiplied by the
\* ratio, is within 1 unit of the logical point.
C26_RoundTripAnyRatio ==
    [][\A op \in PointerOps :
         (dispatched'.op = op /\ scaler.screen_width > 0) =>
            \A point \in Points(scaler.size) :
                ScalerPointer(op, point) =>
                    BackWithinOne(scaler, dispatched'.path[1], point)]_vars

\* C26 (amended): the same for every ratio in (0, 1], that is when the
\* real screen is at least as large as the canvas image.
C26_RoundTripScaledDown ==
    [][\A op \in PointerOps :
         (/\ dispatched'.op = op
          /\ scaler.screen_width > 0
          /\ Ratio(scaler)[1] <= Ratio(scaler)[2]) =>
            \A point \in Points(scaler.size) :
                ScalerPointer(op, point) =>
                    BackWithinOne(scaler, dispatched'.path[1], point)]_vars

\* A click at (1, 1) on the small canvas was translated under the ratio
\* 2/3 (9x5 screen) to (1, 1): 1.5 truncated.
C26_Witness ==
    /\ scaler = [size |-> <<MaxCoord, MaxCoord - 2>>, screen_width |-> 9,
                 screen_height |-> 5]
    /\ dispatched = [op |-> "click", path |-> <<(<<1, 1>>)>>]
\* The entries of a registry, or the schemas of a request, with a given name.
EntriesFor(ts, name) == SelectSeq(ts, LAMBDA e : e.name = name)

\* The handlers invoked in a sequence of effects, in order.
HandlerCalls(eff) ==
    LET hs == SelectSeq(eff, LAMBDA e : e.op = "handler")
    IN [i \in 1..Len(hs) |-> hs[i].what]

\* C22: when add_tool is called for a name that is already registered, the
\* registry keeps its length and holds exactly one entry of that name, the
\* schema and handler just given; a function_call of a registered name
\* invokes exactly the handler of that one entry; and the tool list of a
\* request holds, for each registered name, exactly the schema of that entry.
C22_ReRegistrationOverwrites ==
    [][/\ \A tool \in ToolSchemas, f \in ToolHandlers :
            (ToolRegistered(tool.name) /\ add_tool(tool, f)) =>
               /\ Len(tools') = Len(tools)
               /\ EntriesFor(tools', tool.name) =
                     <<[name |-> tool.name, tool |-> tool, func |-> f]>>
       /\ (/\ pc = "drain"
           /\ previous_response.output[idx].type = "function_call"
           /\ ToolRegistered(previous_response.output[idx].name)) =>
              LET name == previous_response.output[idx].name
              IN /\ Len(EntriesFor(tools, name)) = 1
                 /\ HandlerCalls(effects') =
                       Append(HandlerCalls(effects),
                              EntriesFor(tools, name)[1].func)
       /\ Len(requests') > Len(requests) =>
              LET sent == requests'[Len(requests')].tools
              IN \A i \in 1..Len(tools) :
                    EntriesFor(sent, tools[i].name) = <<tools[i].tool>>]_vars

\* The name "lookup" is held with its second schema and second handler
\* before the tool "search"; a call of "lookup" has run that handler and
\* the request lists that schema.
C22_Witness ==
    /\ Len(tools) = 2
    /\ tools[1] = [name |-> "lookup", tool |-> Schema("lookup", "v2"),
                   func |-> "h2"]
    /\ tools[2].name = "search"
    /\ HandlerCalls(effects) = <<"h2">>
    /\ Len(requests) = 1
    /\ requests[1].tools =
          <<computer_tool, Schema("lookup", "v2"), tools[2].tool>>

\* The names of a registry, in its order.
NamesOf(ts) == [i \in 1..Len(ts) |-> ts[i].name]

\* C23: a registration keeps the order of the names already registered and
\* puts a new name last; every request carries the computer tool first and
\* then the schemas of all registered tools in that order; and all requests
\* of a turn (made after the same registrations) carry the same list.
C23_FullToolListInOrder ==
    [][/\ tools' # tools =>
            \/ NamesOf(tools') = NamesOf(tools)
            \/ /\ Len(tools') = Len(tools) + 1
               /\ SubSeq(tools', 1, Len(tools)) = tools
               /\ ~ToolRegistered(tools'[Len(tools')].name)
       /\ Len(requests') > Len(requests) =>
            LET sent == requests'[Len(requests')].tools
            IN /\ Len(sent) = Len(tools) + 1
               /\ sent[1] = computer_tool
               /\ \A i \in 1..Len(tools) : sent[i + 1] = tools[i].tool
               /\ \A k \in 1..Len(requests) : requests[k].tools = sent]_vars

\* Two requests of one turn carry the computer tool, then "search" (registered
\* first), then "lookup".
C23_Witness ==
    /\ NamesOf(tools) = <<"search", "lookup">>
    /\ Len(requests) = 2
    /\ requests[1].tools = <<computer_tool, tools[1].tool, tools[2].tool>>
    /\ requests[2].tools = requests[1].tools

\* Some item of the held response is a computer_call.
HoldsComputerCall(resp) ==
    /\ resp.kind = "response"
    /\ \E i \in 1..Len(resp.output) : resp.output[i].type = "computer_call"

\* C24: once the attribute self.response exists, requires_consent is true
\* when the held response contains a computer_call item and false otherwise
\* (no response held included), and pending_safety_checks of a held response
\* is the concatenation, in item order, of the checks of its computer_call
\* items.
C24_ConsentAndChecks ==
    response.kind # "unset" =>
        /\ requires_consent(response) =
              IF HoldsComputerCall(response) THEN "True" ELSE "False"
        /\ response.kind = "response" =>
              pending_safety_checks(response) =
                 FlattenChecks(SelectSeq(response.output,
                                  LAMBDA item : item.type = "computer_call"))

\* The same, for the states in which a response is held.
C24_WhenResponseHeld ==
    response.kind = "response" =>
        /\ requires_consent(response) =
              IF HoldsComputerCall(response) THEN "True" ELSE "False"
        /\ pending_safety_checks(response) =
              FlattenChecks(SelectSeq(response.output,
                               LAMBDA item : item.type = "computer_call"))

\* The item being drained is a computer_call whose action type is no
\* method of the computer object.
DrainsUnsupportedAction ==
    /\ pc = "drain"
    /\ previous_response.output[idx].type = "computer_call"
    /\ previous_response.output[idx].action.type \notin DriverMethods

\* C27: draining a computer_call whose action type has no Driver method ends
\* continue_task with the AttributeError of getattr; no Driver method is
\* invoked for the item and no request is submitted.
C27_UnsupportedActionFails ==
    [][DrainsUnsupportedAction =>
         /\ pc' = "idle"
         /\ result' = "AttributeError"
         /\ nRequests' = 0]_vars

\* The same, for an unsupported action in the first computer_call of the
\* response.
C27_FirstCallUnsupportedFails ==
    [][(/\ DrainsUnsupportedAction
        /\ ComputerCalls(response.output)[1] = previous_response.output[idx]) =>
         /\ pc' = "idle"
         /\ result' = "AttributeError"
         /\ nRequests' = 0]_vars

\* The wait a rate-limit signal asks for: the seconds it suggests, or the
\* default when it suggests none.
SuggestedWait(hint) == IF hint = NoHint THEN DefaultWait ELSE hint

\* C28: the step that handles a rate-limit error sets the wait to the
\* seconds that error suggests, or to 10 when it suggests none, whatever the
\* wait was before; and the sleep that opens the next attempt lasts that
\* wait.
C28_BackoffDuration ==
    [][/\ (pc = "awaiting" /\ pc' = "attempt") =>
            /\ signal' \in Hints
            /\ wait' = SuggestedWait(signal')
       /\ (pc = "attempt" /\ pc' = "awaiting") =>
            /\ slept' = wait
            /\ nSignals >= 1 => slept' = SuggestedWait(signal)
            /\ nSignals = 0 => slept' = 0]_vars

\* After a second rate-limit error, one without a suggestion, the attempt
\* that is awaited was opened by a sleep of the default 10 seconds.
C28_Witness ==
    /\ pc = "awaiting"
    /\ nSignals = 2
    /\ signal = NoHint
    /\ slept = DefaultWait

\* The last continue_task reached the submission step and ended without a
\* response: by a rate-limit error on its last attempt or by another error
\* of the model channel.
SubmissionFailed ==
    /\ pc = "idle"
    /\ lastOutcome \in {"rate_limit", "error"}

C29_WitnessExhausted ==
    /\ SubmissionFailed
    /\ nSignals = MaxAttempts
    /\ response = NoneResponse

\* C30: a continue_task that ends while draining leaves the held response
\* as it was, the response it was draining; a continue_task called while a
\* response with items is held drains it from its first item with no
\* outputs and no effects carried over; and a computer_call drained as the
\* first item is executed, whether or not it was executed before.
C30_DrainFailureKeepsResponse ==
    [][/\ (pc = "drain" /\ pc' = "idle") =>
            /\ result' \notin {"returned", "running", "none"}
            /\ response' = response
            /\ response' = previous_response
       /\ (/\ pc = "idle"
           /\ result \in {"ValueError", "NotImplementedError", "DriverError",
                         "AttributeError"}
           /\ response.kind = "response"
           /\ pc' # "idle") =>
            /\ pc' = "drain"
            /\ idx' = 1
            /\ previous_response' = response
            /\ previous_response_id' = response.id
            /\ inputs' = <<>>
            /\ effects' = <<>>
       /\ (/\ pc = "drain"
           /\ idx = 1
           /\ previous_response.output[1].type = "computer_call"
           /\ previous_response.output[1].action.type # "screenshot"
           /\ pc' # "idle") =>
            /\ Len(effects') = 2
            /\ effects'[1].op \in {"action", "action_failed"}
            /\ effects'[1].what = previous_response.output[1].action.type]_vars

\* A continue_task has failed on the second item of the held response,
\* after the computer_call that is its first item, and the response is
\* still held.
C30_Witness ==
    /\ pc = "idle"
    /\ result = "NotImplementedError"
    /\ response.kind = "response"
    /\ Len(response.output) >= 2
    /\ response.output[1].type = "computer_call"
    /\ response.output[2].type = "web_search_call"

\* C34: for every operation, the circuit is open if and only if the failure
\* count, which record_failure raises by one and only record_success sets
\* back to 0, has reached fail_threshold; and record_success leaves the
\* count at 0 and the circuit closed.
C34_CircuitBreakerInvariant ==
    /\ [](\A op \in Operations :
            circuit_breaker.circuit_state[op] = "open" <=>
               circuit_breaker.fail_count[op] >= fail_threshold)
    /\ [][\A op \in Operations :
            /\ record_failure(op) =>
                  circuit_breaker'.fail_count[op] =
                     circuit_breaker.fail_count[op] + 1
            /\ record_success(op) =>
                  /\ circuit_breaker'.fail_count[op] = 0
                  /\ circuit_breaker'.circuit_state[op] = "closed"
            /\ circuit_breaker'.fail_count[op] < circuit_breaker.fail_count[op]
                  => record_success(op)]_vars

\* One circuit is open after fail_threshold failures; the other was closed
\* by a success and has seen two failures since.
C34_Witness ==
    /\ circuit_breaker.circuit_state["screenshot"] = "open"
    /\ circuit_breaker.fail_count["screenshot"] = fail_threshold
    /\ circuit_breaker.circuit_state["api"] = "closed"
    /\ circuit_breaker.fail_count["api"] = 2

\* The wrapped continue_task has ended and azure_retry has not yet handled
\* its result.
InnerEnded == enhanced.pc = "inner" /\ pc = "idle"

\* C33: one call of the wrapper invokes the wrapped coroutine at most
\* max_retries + 1 times; it invokes it again only after a timeout or
\* connection error; any other exception ends the call, raised to the
\* caller, after the invocation that raised it; and a timeout or connection
\* error ends the call only on the last invocation, raised to the caller.
C33_BoundedSelectiveRetry ==
    /\ [](enhanced.invocations <= max_retries + 1)
    /\ [][/\ (InnerEnded /\ enhanced'.pc = "invoke") =>
               /\ result \in Retryable
               /\ enhanced.invocations <= max_retries
          /\ (InnerEnded /\ enhanced' # enhanced
                         /\ result \notin Retryable \cup {"returned"}) =>
               /\ enhanced'.pc = "idle"
               /\ enhanced'.outcome = result
               /\ enhanced'.invocations = enhanced.invocations
          /\ (InnerEnded /\ result \in Retryable /\ enhanced'.pc = "idle") =>
               /\ enhanced.invocations = max_retries + 1
               /\ enhanced'.outcome = result
          /\ (InnerEnded /\ enhanced' # enhanced /\ result \in Retryable
                         /\ enhanced.invocations <= max_retries) =>
               enhanced'.pc = "invoke"]_vars

\* Four invocations have timed out and the call has ended with the timeout
\* error.
C33_Witness ==
    /\ enhanced.pc = "idle"
    /\ enhanced.outcome = "APITimeoutError"
    /\ enhanced.invocations = max_retries + 1
    /\ enhanced.retries = max_retries + 1

\* What a continue_task that drains nothing submits: the user message, if
\* there is one.
OnlyUserMessage(msg) == IF msg # "" THEN <<Message(msg)>> ELSE <<>>

C35_SuccessResetsFailures ==
    [][(InnerEnded /\ result = "returned" /\ enhanced'.pc = "idle") =>
         circuit_breaker'.fail_count["screenshot"] = 0]_vars

\* The same, for a continue_task that ran in degraded mode.
C35_DegradedSuccessResets ==
    [][(InnerEnded /\ result = "returned" /\ enhanced.degraded
                   /\ enhanced'.pc = "idle") =>
         /\ circuit_breaker'.fail_count["screenshot"] = 0
         /\ circuit_breaker'.circuit_state["screenshot"] = "closed"]_vars

\* C36: an invocation that finds the screenshot circuit open saves
\* performance_mode and sets it to true, one that finds it closed leaves it
\* alone; it stays true while the degraded invocation runs; and when that
\* invocation ends, by return or by exception, it has its saved value again.
C36_PerformanceModeRestored ==
    /\ []((enhanced.pc = "inner" /\ enhanced.degraded) =>
             enhanced.performance_mode)
    /\ [][/\ (enhanced.pc = "invoke" /\ enhanced'.pc = "inner") =>
               IF enhanced'.degraded
               THEN /\ ~can_execute(circuit_breaker, "screenshot")
                    /\ enhanced'.original_perf_mode = enhanced.performance_mode
                    /\ enhanced'.performance_mode
               ELSE enhanced'.performance_mode = enhanced.performance_mode
          /\ (InnerEnded /\ enhanced.degraded /\ enhanced' # enhanced) =>
               enhanced'.performance_mode = enhanced.original_perf_mode
          /\ (InnerEnded /\ ~enhanced.degraded) =>
               enhanced'.performance_mode = enhanced.performance_mode]_vars

\* A degraded call of an Agent configured without performance mode has
\* ended with an exception, and performance_mode is false again.
C36_Witness ==
    /\ enhanced.pc = "idle"
    /\ enhanced.degraded
    /\ enhanced.outcome = "APIError"
    /\ ~enhanced.original_perf_mode
    /\ ~enhanced.performance_mode

\* A degraded call has returned and performance_mode is false again.
C36_WitnessReturned ==
    /\ enhanced.pc = "idle"
    /\ enhanced.degraded
    /\ enhanced.outcome = "returned"
    /\ ~enhanced.original_perf_mode
    /\ ~enhanced.performance_mode

\* C32: between calls, once a task was started, reading requires_consent,
\* pending_safety_checks, reasoning_summary or actions gives a value and
\* raises nothing, also while no response is held.
C32_DerivedPropertiesDefined ==
    (pc = "idle" /\ taskStarted) =>
        \A property \in DerivedProperties :
            ReadProperty(property, response) # "AttributeError"

\* C37: navigate_directly issues page.goto only during the first
\* max_navigation_attempts calls that target a domain; every later call
\* for that domain returns False without navigating, whatever the earlier
\* calls returned, and the counter of a domain is never reset: it equals
\* the number of calls that targeted the domain.
C37_NavigationAttemptCap ==
    /\ navigator.gotos > 0
          => navigator.calls[navigator.domain] <= max_navigation_attempts
    /\ navigator.domain # NoDomain
          /\ navigator.calls[navigator.domain] > max_navigation_attempts
          => navigator.gotos = 0 /\ ~navigator.returned
    /\ \A d \in Domains :
          navigator.navigation_attempts[d] = navigator.calls[d]

\* A fourth call for a domain returned False without navigating although
\* an earlier call for the same domain succeeded.
C37_Witness ==
    /\ navigator.domain = "example.com"
    /\ navigator.calls["example.com"] = max_navigation_attempts + 1
    /\ navigator.calls["github.com"] = 0
    /\ navigator.successful_navigations >= 1
    /\ navigator.gotos = 0
    /\ ~navigator.returned

\* The runs of the executor a running execute_task has left at most.
TurnsLeft ==
    IF crew.pc = "awaiting" THEN MAX_TURNS - crew.runs + 1 ELSE 0

\* C38: execute_task runs the agent executor at most MAX_TURNS times per
\* task and always terminates (a running call can always take a step and
\* every step lowers TurnsLeft, which never goes below zero); a call that
\* returns either returns the first reply that holds "Final Answer:" or
\* lacks an observations section, or, after MAX_TURNS replies with neither,
\* the "Reached maximum interaction turns" result built from the last reply.
C38_BoundedTurns ==
    /\ [](crew.runs <= MAX_TURNS)
    /\ [](TurnsLeft >= 0)
    /\ [](crew.pc # "idle" => ENABLED CrewStep)
    /\ [][crew.pc # "idle" => TurnsLeft' < TurnsLeft]_vars
    /\ [](crew.outcome = "returned" =>
            LET n == Len(crew.all_turns)
            IN  /\ n = crew.runs
                /\ crew.result.reply = crew.all_turns[n]
                /\ \A i \in 1..(n - 1) : ~Stops(crew.all_turns[i])
                /\ \/ /\ crew.result.kind = "reply"
                      /\ Stops(crew.all_turns[n])
                   \/ /\ crew.result.kind = "max_turns"
                      /\ ~Stops(crew.all_turns[n])
                      /\ n = MAX_TURNS)

\* A call returned the maximum-turns result after MAX_TURNS runs.
C38_Witness ==
    /\ crew.outcome = "returned"
    /\ crew.result.kind = "max_turns"
    /\ crew.runs = MAX_TURNS

\* A call returned a reply with a final answer after several turns.
C38_WitnessFinalAnswer ==
    /\ crew.outcome = "returned"
    /\ crew.result.kind = "reply"
    /\ crew.result.reply.final_answer
    /\ crew.runs > 1

\* An execute_task call ends in this step.
CallEnds == crew.pc = "awaiting" /\ crew'.pc = "idle"

\* The three counters of the metrics.
Counters(c) == <<c.tasks_started, c.tasks_completed, c.errors>>

\* C39 as stated: tasks_completed + errors <= tasks_started; each
\* execute_task increments tasks_started exactly once, and when it ends it
\* has incremented exactly one of tasks_completed and errors.
C39_MetricsInvariant ==
    /\ [](crew.tasks_completed + crew.errors <= crew.tasks_started)
    /\ [][(\E instruction \in Instructions : execute_task(instruction))
            => Counters(crew') = Counters(CountStarted(crew))]_vars
    /\ [][CallEnds
            => \/ Counters(crew') = Counters(CountCompleted(crew))
               \/ Counters(crew') = Counters(CountError(crew))]_vars

\* C39, amended: tasks_completed + errors <= tasks_started; each
\* execute_task increments tasks_started exactly once when it begins and
\* nothing until it ends; a call that returns increments tasks_completed
\* only, a call that raises an Exception increments errors only, and a call
\* ended by cancellation increments neither.
C39_MetricsPerCall ==
    /\ [](crew.tasks_completed + crew.errors <= crew.tasks_started)
    /\ [][(\E instruction \in Instructions : execute_task(instruction))
            => Counters(crew') = Counters(CountStarted(crew))]_vars
    /\ [][crew'.pc = "awaiting" /\ crew.pc = "awaiting"
            => Counters(crew') = Counters(crew)]_vars
    /\ [][CallEnds =>
            Counters(crew') =
              Counters(CASE crew'.outcome = "returned" -> CountCompleted(crew)
                         [] crew'.outcome = "raised" -> CountError(crew)
                         [] OTHER -> crew)]_vars

\* Three calls have ended: one returned, one raised, one was cancelled.
C39_Witness ==
    /\ crew.pc = "idle"
    /\ crew.tasks_started = 3
    /\ crew.tasks_completed = 1
    /\ crew.errors = 1
    /\ crew.outcome = "cancelled"

====
